---------------------------- MODULE Spec2Model ----------------------------
(***************************************************************************)
(* A model of the numerical differentiation engine of MOT:                 *)
(*   - mot/cl_routines/numerical_hessian.py  (numerical_hessian and its    *)
(*     kernels: step generation, central differences, Richardson, Wynn,    *)
(*     median outlier selection, vector to matrix unpacking),              *)
(*   - mot/cl_routines/mapping/numerical_hessian.py (the older kernel with *)
(*     the in-kernel bound checks),                                        *)
(*   - mot/lib/cl_processor.py and mot/lib/cl_processors.py (the batch     *)
(*     scheduler).                                                         *)
(*                                                                         *)
(* Floating point values are modelled as exact rationals <<n, d>> (d > 0,  *)
(* lowest terms) extended with the IEEE special values NaN = <<0, 0>>,     *)
(* +inf = <<1, 0>> and -inf = <<-1, 0>>.  Rounding is not modelled.        *)
(***************************************************************************)
EXTENDS Integers, Sequences, FiniteSets, TLC

-----------------------------------------------------------------------------
(* Extended rational arithmetic (the IEEE-754 rules for NaN and infinity). *)

NaN == <<0, 0>>
PosInf == <<1, 0>>
NegInf == <<-1, 0>>

AbsInt(n) == IF n < 0 THEN -n ELSE n
SignInt(n) == IF n < 0 THEN -1 ELSE IF n > 0 THEN 1 ELSE 0

RECURSIVE GCD(_, _)
GCD(a, b) == IF b = 0 THEN a ELSE GCD(b, a % b)

Norm(n, d) ==
    LET s == IF d < 0 THEN -1 ELSE 1
        g == GCD(AbsInt(n), AbsInt(d))
    IN  <<(s * n) \div g, (s * d) \div g>>

Rat(n) == <<n, 1>>
Frac(n, d) == Norm(n, d)

IsNaN(a) == a[2] = 0 /\ a[1] = 0
IsInf(a) == a[2] = 0 /\ a[1] # 0
IsFinite(a) == a[2] # 0
IsZero(a) == a[2] # 0 /\ a[1] = 0

FNeg(a) == <<-a[1], a[2]>>

FAdd(a, b) ==
    IF IsNaN(a) \/ IsNaN(b) THEN NaN
    ELSE IF IsInf(a) THEN (IF IsInf(b) /\ b[1] # a[1] THEN NaN ELSE a)
    ELSE IF IsInf(b) THEN b
    ELSE LET g == GCD(a[2], b[2])
         IN  Norm(a[1] * (b[2] \div g) + b[1] * (a[2] \div g), (a[2] \div g) * b[2])

FSub(a, b) == FAdd(a, FNeg(b))

FMul(a, b) ==
    IF IsNaN(a) \/ IsNaN(b) THEN NaN
    ELSE IF IsInf(a) \/ IsInf(b)
         THEN (IF IsZero(a) \/ IsZero(b) THEN NaN
               ELSE <<SignInt(a[1]) * SignInt(b[1]), 0>>)
    ELSE LET g1 == GCD(AbsInt(a[1]), b[2])
             g2 == GCD(AbsInt(b[1]), a[2])
         IN  Norm((a[1] \div g1) * (b[1] \div g2), (a[2] \div g2) * (b[2] \div g1))

\* 1 / a; a zero has no sign in this model, so 1 / 0 = +inf.
FInv(a) ==
    IF IsNaN(a) THEN NaN
    ELSE IF IsInf(a) THEN Rat(0)
    ELSE IF a[1] = 0 THEN PosInf
    ELSE Norm(a[2], a[1])

FDiv(a, b) == FMul(a, FInv(b))

FAbs(a) == <<AbsInt(a[1]), a[2]>>

\* a < b; false when either side is NaN.
\* n1 / d1 < n2 / d2 for non-negative fractions, by Euclid's algorithm: no product
\* is formed, so the comparison stays inside the machine integers
RECURSIVE LtPos(_, _, _, _)
LtPos(n1, d1, n2, d2) ==
    IF n1 \div d1 # n2 \div d2 THEN n1 \div d1 < n2 \div d2
    ELSE IF n2 % d2 = 0 THEN FALSE
    ELSE IF n1 % d1 = 0 THEN TRUE
    ELSE LtPos(d2, n2 % d2, d1, n1 % d1)

FLt(a, b) ==
    IF IsNaN(a) \/ IsNaN(b) \/ a = b THEN FALSE
    ELSE IF a = NegInf \/ b = PosInf THEN TRUE
    ELSE IF a = PosInf \/ b = NegInf THEN FALSE
    ELSE IF a[1] < 0 /\ b[1] >= 0 THEN TRUE
    ELSE IF a[1] >= 0 /\ b[1] < 0 THEN FALSE
    ELSE IF a[1] < 0 THEN LtPos(-b[1], b[2], -a[1], a[2])
    ELSE LtPos(a[1], a[2], b[1], b[2])

FLe(a, b) == ~IsNaN(a) /\ ~IsNaN(b) /\ (a = b \/ FLt(a, b))
FGt(a, b) == FLt(b, a)
FEq(a, b) == ~IsNaN(a) /\ ~IsNaN(b) /\ a = b

\* numpy.minimum: NaN is propagated.
NpMinimum(a, b) == IF IsNaN(a) \/ IsNaN(b) THEN NaN ELSE IF FLt(b, a) THEN b ELSE a

\* OpenCL max(x, y): y if x < y, otherwise x.
ClMax(x, y) == IF FLt(x, y) THEN y ELSE x

RECURSIVE IntPow(_, _)
IntPow(b, e) == IF e = 0 THEN 1 ELSE b * IntPow(b, e - 1)

\* float(b) ** e for an integer e of either sign.
FPow(b, e) == IF e >= 0 THEN Rat(IntPow(b, e)) ELSE Frac(1, IntPow(b, -e))

-----------------------------------------------------------------------------
(* Bounds of the model. *)

MaxParams == 2
MaxProblems == 2
MaxSteps == 6
MaxLongSteps == 7

-----------------------------------------------------------------------------
(* State of one call of numerical_hessian. *)

VARIABLES
    pc,               \* position inside numerical_hessian
    nmr_params,       \* parameters.shape[1]
    nmr_problems,     \* parameters.shape[0]
    nmr_steps,        \* the nmr_steps argument
    step_ratio,       \* the step_ratio argument
    step_offset,      \* the step_offset argument (0 stands for None as well)
    model,            \* the NumericalDerivativeInterface, objective and bounds
    parameters,       \* [problem][param]
    initial_step,     \* [problem][param], as handed to the kernel
    steps,            \* [problem][param][step index], step_x of the kernel
    step_evaluates,   \* [problem][derivative index][step index]
    derivatives,      \* [problem][derivative index][candidate index]
    errors,           \* [problem][derivative index][candidate index]
    selector_args,    \* the arguments _median_outlier_extrapolation was called with
    stages,           \* the stages executed so far, in order
    hessian,          \* the returned (problems, p, p) array
    \* one use of the packed derivative index
    tri_pc,           \* "start", "indexed", "unpacked"
    tri_params,       \* the number of parameters
    tri_pair,         \* a matrix position <<row, col>>
    tri_index,        \* the linear index _results_vector_to_matrix reads for it
    tri_coord,        \* the pair the kernel computes at that linear index
    \* one processor (cl_processor.py Processor, cl_processors.py MultiDeviceProcessor)
    sched_pc,         \* "constructed", "enqueued", "flushed", "finished"
    sched_kind,       \* the class of the processor
    sched_options,    \* context_variables given, do_data_transfers
    cl_environments,  \* the devices in order, each with its load share
    nmr_instances,    \* the nmr_instances argument
    batches,          \* the division of the instances, one <<start, end>> per device
    subprocessors,    \* MultiDeviceProcessor._subprocessors
    queues,           \* per device, the commands enqueued on its queue, in order
    completed,        \* per device, how many commands of its queue it has executed
    workers,          \* Processor._workers: per device the KernelWorker
    launched,         \* per device, the kernel objects the compute kernel was run with
    nmr_runs,         \* the number of enqueue_run calls so far
    use_local_reduction, \* the use_local_reduction argument of the processor
    local_size,       \* the local_size argument of the processor (0 stands for None)
    geometry,         \* per device the global size, local size and offset of its launches
    \* one run of the compute kernel of mapping/numerical_hessian.py
    map_pc,           \* "allocated" once calculate has set up the kernel data
    map_args,         \* model, parameters, nmr_params, nmr_steps, step_ratio
    map_computed,     \* the instances whose kernel has run
    map_within_bounds,         \* per instance the last value of within_bounds
    map_steps,                 \* the steps buffer [instance][step index][param]
    map_step_evaluates,        \* [instance][step index][element]
    map_step_evaluates_convoluted, \* [instance][step index][element]
    \* one entry handed to _median_outlier_extrapolation
    sel_pc,           \* "called", "returned"
    sel_ncand,        \* derivatives.shape[2]
    sel_derivatives,  \* the candidates of the entry, as passed in
    sel_errors,       \* their errors, as passed in
    sel_result,       \* the arrays after the call, the selected position and value
    \* one work item of the loop of _wynn_extrapolation_kernel
    wynn_pc,          \* "called", "returned"
    wynn_triple,      \* <<v0, v1, v2>>
    wynn_result,      \* <<extrapolation, error>>
    wynn_divisions,   \* the denominators of the divisions the kernel executed
    dea3_divisions,   \* the denominators of the divisions dea3 executed
    \* one work group in consecutive calls of the mapping _calculate_function
    red_pc,              \* per lane: "reset", "accumulate", "barrier", "sum", "done"
    red_workgroup_size,  \* get_local_size(0)
    red_observations,    \* nmr_inst_per_problem
    red_calls,           \* the number of consecutive calls
    red_call,            \* per lane: the number of the call it is in
    red_i,               \* per lane: the loop counter i
    red_ll,              \* per lane: the private sum ll
    local_reduction_lls, \* data->local_reduction_lls, one slot per lane
    red_returned,        \* per lane: the values returned so far, in call order
    red_evaluated,       \* per call and observation: the lanes that evaluated it
    \* one work group in the compute kernel of the mapping routine
    grp_pc,              \* per lane: its position in compute
    grp_size,            \* get_local_size(0)
    grp_args,            \* the model, the input point and the shape of the instance
    grp_within_bounds,       \* the local bool within_bounds of compute
    grp_observed,        \* per lane: the values of within_bounds it has read
    grp_writers,         \* the lanes that have written within_bounds
    grp_coherent,        \* every read so far returned what lane 0 wrote last
    \* one work group going through consecutive calls of _eval_step
    ev_pc,               \* per lane: its position in _eval_step
    ev_size,             \* get_local_size(0)
    ev_calls,            \* the number of consecutive calls
    ev_objective_barrier,\* the objective synchronises the lanes after reading x
    ev_call,             \* per lane: the number of the call it is in
    ev_x_tmp,               \* the local array x_tmp: whose perturbations it holds
    ev_read              \* per lane and call: the content of x_tmp it evaluated

hvars == <<pc, nmr_params, nmr_problems, nmr_steps, step_ratio, step_offset, model,
           parameters, initial_step, steps, step_evaluates, derivatives, errors,
           selector_args, stages, hessian>>

tvars == <<tri_pc, tri_params, tri_pair, tri_index, tri_coord>>

svars == <<sched_pc, sched_kind, sched_options, cl_environments, nmr_instances, batches,
           subprocessors, queues, completed, workers, launched, nmr_runs,
           use_local_reduction, local_size, geometry>>

mvars == <<map_pc, map_args, map_computed, map_within_bounds, map_steps,
           map_step_evaluates, map_step_evaluates_convoluted>>

selvars == <<sel_pc, sel_ncand, sel_derivatives, sel_errors, sel_result>>

wynnvars == <<wynn_pc, wynn_triple, wynn_result, wynn_divisions, dea3_divisions>>

redvars == <<red_pc, red_workgroup_size, red_observations, red_calls, red_call, red_i,
             red_ll, local_reduction_lls, red_returned, red_evaluated>>

grpvars == <<grp_pc, grp_size, grp_args, grp_within_bounds, grp_observed, grp_writers,
             grp_coherent>>

\* the state of the work groups looked at lane by lane
evvars == <<ev_pc, ev_size, ev_calls, ev_objective_barrier, ev_call, ev_x_tmp, ev_read>>

lanevars == <<redvars, grpvars, evvars>>

\* the state of the extrapolation functions and work groups used on their own
xvars == <<selvars, wynnvars, lanevars>>

\* everything but the state of the numerical_hessian call
ovars == <<tvars, svars, mvars, xvars>>

Params(p) == 0 .. (p - 1)
Problems(n) == 0 .. (n - 1)

-----------------------------------------------------------------------------
(* The inputs the model explores. *)

ObjectiveIds == {"sumsq", "kink", "hole"}
TransformIds == {"identity", "wrap"}
\* "flagsoff": numdiff_use_bounds is set, neither side flag is.
\* "ignored": both side flags are set, numdiff_use_bounds is not.
BoundConfigs == {"none", "lower", "upper", "both", "flagsoff", "ignored"}
ScalingConfigs == {"unit", "graded"}

LowerBound == Rat(0)
UpperBound == Rat(3)
ModelMaxStep == Rat(2)
\* The point at which the "hole" objective evaluates to not-a-number.
HoleAt == Frac(5, 4)
\* The period of the "wrap" parameter transformation.
WrapPeriod == Rat(3)

\* The model collaborator for a bound configuration and a scaling configuration.
ModelOf(b, sc, f, t, p) ==
    [ max_step   |-> [i \in Params(p) |-> ModelMaxStep],
      scaling    |-> [i \in Params(p) |-> IF sc = "unit" THEN Rat(1) ELSE Rat(i + 1)],
      use_bounds |-> [i \in Params(p) |-> b \notin {"none", "ignored"}],
      use_lower  |-> [i \in Params(p) |-> b \in {"lower", "both", "ignored"}],
      use_upper  |-> [i \in Params(p) |-> b \in {"upper", "both", "ignored"}],
      lower      |-> [i \in Params(p) |-> LowerBound],
      upper      |-> [i \in Params(p) |-> UpperBound],
      objective  |-> f,
      transform  |-> t ]

\* One call: model configuration, step ratio and offset, the value v of the one
\* deviating coordinate (1 is the interior value of every other coordinate; 0 and
\* 3 lie on a bound, 5 lies outside the bounds) and the step counts explored.
Scenario(b, sc, f, t, r, o, v, ns) ==
    [b |-> b, sc |-> sc, f |-> f, t |-> t, ratio |-> r, offset |-> o, v |-> v, ns |-> ns]

\* The step counts explored with a transformation: the jumps of "wrap" make the
\* Wynn stage leave the machine integers, so those calls stop at four steps.
StepCounts(t) == IF t = "wrap" THEN 1 .. 4 ELSE 1 .. MaxSteps

\* every bound configuration at every kind of point
BoundScenarios ==
    {Scenario(b, sc, "sumsq", "identity", 2, 0, v, 1 .. 2) :
        b \in BoundConfigs, sc \in ScalingConfigs, v \in {1, 0, 3, 5}}
\* step ratios and offsets
StepScenarios ==
    {Scenario(b, "unit", "sumsq", "identity", r, o, 1, 1 .. MaxSteps) :
        b \in {"none", "lower"}, r \in {2, 3}, o \in {0, 1, 2}}
\* objectives whose difference quotients depend on the step
ObjectiveScenarios ==
    {Scenario(b, sc, f, "identity", 2, o, 1, 1 .. MaxSteps) :
        b \in {"none", "lower"}, sc \in ScalingConfigs, f \in {"kink", "hole"}, o \in {0, 1}}
\* a coordinate on an active bound, or outside the bounds
BoundaryScenarios ==
    {Scenario(bv[1], "unit", f, t, 2, 0, bv[2], StepCounts(t)) :
        bv \in {<<"lower", 0>>, <<"both", 0>>, <<"both", 3>>, <<"upper", 3>>, <<"both", 5>>},
        f \in {"sumsq", "kink"}, t \in TransformIds}
\* the transformation away from the bounds
TransformScenarios ==
    {Scenario("none", "unit", f, "wrap", 2, 0, v, StepCounts("wrap")) :
        f \in {"sumsq", "kink"}, v \in {1, 5}}

\* calls with more steps than the other scenarios explore: the quadratic objective,
\* whose difference quotients stay small numbers
LongScenarios ==
    {Scenario("none", sc, "sumsq", "identity", 2, 0, 1, (MaxSteps + 1) .. MaxLongSteps) :
        sc \in ScalingConfigs}

Scenarios == BoundScenarios \cup StepScenarios \cup ObjectiveScenarios
                \cup BoundaryScenarios \cup TransformScenarios \cup LongScenarios

\* Parameter matrices: every instance sits at the interior point (1, .., 1) except
\* one, whose coordinate k has the value v.
InteriorPoint(p) == [i \in Params(p) |-> Rat(1)]
ParameterMatrices(n, p, v) ==
    {[m \in Problems(n) |->
        IF m = d THEN [InteriorPoint(p) EXCEPT ![k] = Rat(v)] ELSE InteriorPoint(p)] :
        d \in Problems(n), k \in Params(p)}

-----------------------------------------------------------------------------
(* The collaborators of the model interface. *)

RECURSIVE SumSquares(_, _)
SumSquares(x, n) == IF n = 0 THEN Rat(0) ELSE FAdd(SumSquares(x, n - 1), FMul(x[n - 1], x[n - 1]))

\* sum of x[i] * x[j] over i < j < n
RECURSIVE SumCross(_, _)
SumCross(x, n) ==
    IF n <= 1 THEN Rat(0)
    ELSE LET RECURSIVE Row(_)
             Row(i) == IF i < 0 THEN Rat(0) ELSE FAdd(Row(i - 1), FMul(x[i], x[n - 1]))
         IN  FAdd(SumCross(x, n - 1), Row(n - 2))

\* objective_func: the function that is differentiated.
Objective(f, x, p) ==
    IF f = "sumsq" THEN SumSquares(x, p)
    ELSE IF f = "kink"
         THEN FAdd(FAdd(SumSquares(x, p), SumCross(x, p)), FAbs(FSub(x[0], Rat(1))))
    ELSE IF x[0] = HoleAt THEN NaN ELSE FAdd(SumSquares(x, p), SumCross(x, p))

\* x mod m for a finite rational x and a positive integer rational m
FMod(x, m) == Norm(x[1] % (m[1] * x[2]), x[2])

\* numdiff_parameter_transformation: in place on the parameter vector.
Transform(t, x) ==
    IF t = "wrap" THEN [x EXCEPT ![0] = FMod(x[0], WrapPeriod)] ELSE x

-----------------------------------------------------------------------------
(* numerical_hessian.py: the step generator. *)

\* _get_initial_step_size: for every problem the initial step of each parameter.
get_initial_step_size(m, params, n, p) ==
    [prob \in Problems(n) |->
        [ind \in Params(p) |->
            IF m.use_bounds[ind]
            THEN LET x == params[prob][ind]
                     to_upper == FAbs(FSub(m.upper[ind], x))
                     to_lower == FAbs(FSub(x, m.lower[ind]))
                     minimum_allowed_step ==
                         IF m.use_upper[ind] /\ ~m.use_lower[ind]
                         THEN FMul(to_upper, m.scaling[ind])
                         ELSE IF m.use_lower[ind] /\ ~m.use_upper[ind]
                         THEN FMul(to_lower, m.scaling[ind])
                         ELSE FMul(NpMinimum(to_lower, to_upper), m.scaling[ind])
                 IN  NpMinimum(minimum_allowed_step, m.max_step[ind])
            ELSE m.max_step[ind]]]

\* _compute_derivatives, lines 134-136: the initial step handed to the kernel.
offset_initial_step(init, ratio, offset, n, p) ==
    IF offset # 0
    THEN [prob \in Problems(n) |->
            [ind \in Params(p) |-> FMul(init[prob][ind], FPow(ratio, -offset))]]
    ELSE init

\* a step generator that starts one division late
step_size_late(istep, ratio, px, step_ind) ==
    FDiv(istep[px], Rat(IntPow(ratio, step_ind + 1)))

\* _compute_steps: the step of parameter px at step index step_ind.
step_size(istep, ratio, px, step_ind) == FDiv(istep[px], Rat(IntPow(ratio, step_ind)))

-----------------------------------------------------------------------------
(* numerical_hessian.py: the derivation kernel. *)

NmrDerivatives(p) == (p * p - p) \div 2 + p

\* an enumeration of the pairs column by column
RECURSIVE coords_column_major(_, _)
coords_column_major(x, p) ==
    IF x >= p THEN <<>>
    ELSE [y \in 1 .. (x + 1) |-> <<y - 1, x>>] \o coords_column_major(x + 1, p)

\* _derivation_kernel: coords = combinations_with_replacement(range(p), 2), 0-based.
RECURSIVE CoordsFrom(_, _)
CoordsFrom(x, p) ==
    IF x >= p THEN <<>>
    ELSE [y \in 1 .. (p - x) |-> <<x, x + y - 1>>] \o CoordsFrom(x + 1, p)
Coords(p) == [k \in 0 .. (NmrDerivatives(p) - 1) |-> CoordsFrom(0, p)[k + 1]]

\* _calculate_function: the objective on the vector as it is.
calculate_function(m, x, p) == Objective(m.objective, x, p)

\* _eval_step: perturb two dimensions, transform, evaluate.
eval_step(m, x_input, perturb_dim_0, perturb_0, perturb_dim_1, perturb_1, p) ==
    LET x_a == [x_input EXCEPT ![perturb_dim_0] = FAdd(@, perturb_0)]
        x_tmp == [x_a EXCEPT ![perturb_dim_1] = FAdd(@, perturb_1)]
    IN  calculate_function(m, Transform(m.transform, x_tmp), p)

\* _compute_steps: one element of the Hessian for every step index.
compute_steps(m, x_input, f_x_input, px, py, istep, ratio, nsteps, p) ==
    LET inv(i) == FDiv(Rat(1), m.scaling[i])
    IN  [step_ind \in 0 .. (nsteps - 1) |->
            LET step_x == step_size(istep, ratio, px, step_ind)
                step_y == step_size(istep, ratio, py, step_ind)
            IN  IF px = py
                THEN FDiv(
                        FSub(FAdd(eval_step(m, x_input, px, FMul(Rat(2), FMul(step_x, inv(px))),
                                            0, Rat(0), p),
                                  eval_step(m, x_input, px, FMul(Rat(-2), FMul(step_x, inv(px))),
                                            0, Rat(0), p)),
                             FMul(Rat(2), f_x_input)),
                        FMul(FMul(Rat(4), step_x), step_x))
                ELSE FDiv(
                        FAdd(FSub(FSub(eval_step(m, x_input, px, FMul(step_x, inv(px)),
                                                 py, FMul(step_y, inv(py)), p),
                                       eval_step(m, x_input, px, FMul(step_x, inv(px)),
                                                 py, FNeg(FMul(step_y, inv(py))), p)),
                                  eval_step(m, x_input, px, FNeg(FMul(step_x, inv(px))),
                                            py, FMul(step_y, inv(py)), p)),
                             eval_step(m, x_input, px, FNeg(FMul(step_x, inv(px))),
                                       py, FNeg(FMul(step_y, inv(py))), p)),
                        FMul(FMul(Rat(4), step_x), step_y))]

\* compute (the kernel body), once per problem instance.
derivation_kernel(m, params, istep, ratio, nsteps, n, p) ==
    [prob \in Problems(n) |->
        LET f_x_input == calculate_function(m, params[prob], p)
        IN  [coord_ind \in 0 .. (NmrDerivatives(p) - 1) |->
                compute_steps(m, params[prob], f_x_input,
                              Coords(p)[coord_ind][1], Coords(p)[coord_ind][2],
                              istep[prob], ratio, nsteps, p)]]

-----------------------------------------------------------------------------
(* numerical_hessian.py: vector to matrix. *)

\* an unpacking loop that fills the upper triangle only
RECURSIVE vector_to_upper_triangle_loop(_, _, _, _, _, _)
vector_to_upper_triangle_loop(vec, p, px, py, ltr_ind, matrices) ==
    IF px >= p THEN matrices
    ELSE IF py < p
    THEN vector_to_upper_triangle_loop(vec, p, px, py + 1, ltr_ind + 1,
                                       [matrices EXCEPT ![px][py] = vec[ltr_ind]])
    ELSE vector_to_upper_triangle_loop(vec, p, px + 1, px + 1, ltr_ind, matrices)

\* _results_vector_to_matrix for one problem: the loop over px, py with ltr_ind.
RECURSIVE vector_to_matrix_loop(_, _, _, _, _, _)
vector_to_matrix_loop(vec, p, px, py, ltr_ind, matrices) ==
    IF px >= p THEN matrices
    ELSE IF py = px
    THEN vector_to_matrix_loop(vec, p, px, px + 1, ltr_ind + 1,
                               [matrices EXCEPT ![px][px] = vec[ltr_ind]])
    ELSE IF py < p
    THEN vector_to_matrix_loop(vec, p, px, py + 1, ltr_ind + 1,
                               [matrices EXCEPT ![px][py] = vec[ltr_ind],
                                                ![py][px] = vec[ltr_ind]])
    ELSE vector_to_matrix_loop(vec, p, px + 1, px + 1, ltr_ind, matrices)

results_vector_to_matrix(vec, p, zero) ==
    vector_to_matrix_loop(vec, p, 0, 0, 0, [i \in Params(p) |-> [j \in Params(p) |-> zero]])

\* a finalisation that forgets the scalings
finalize_unscaled(vectors, m, n, p) ==
    [prob \in Problems(n) |-> results_vector_to_matrix(vectors[prob], p, Rat(0))]

\* finalize_derivatives: unpack and multiply by the outer product of the scalings.
finalize_derivatives(vectors, m, n, p) ==
    [prob \in Problems(n) |->
        LET mat == results_vector_to_matrix(vectors[prob], p, Rat(0))
        IN  [i \in Params(p) |-> [j \in Params(p) |->
                FMul(mat[i][j], FMul(m.scaling[i], m.scaling[j]))]]]

\* derivatives[..., 0]
first_candidate(arr, n, p) ==
    [prob \in Problems(n) |-> [d \in 0 .. (NmrDerivatives(p) - 1) |-> arr[prob][d][0]]]

-----------------------------------------------------------------------------
(* numerical_hessian.py: Richardson extrapolation. *)

\* MOT_EPSILON and MOT_MIN: the machine epsilon and the smallest normal number of
\* the kernel's float type.  Only MOT_MIN << MOT_EPSILON << 1e-3 matters here.
MOT_EPSILON == Frac(1, 65536)
MOT_MIN == Frac(1, 1048576)

\* the largest k with k * k <= v
ISqrt(v) == CHOOSE k \in 0 .. (v + 1) : k * k <= v /\ (k + 1) * (k + 1) > v

\* _get_richardson_coefficients: the first row of pinv(r_matrix).  The matrix is
\* square and invertible for a ratio > 1; this is the first row of its inverse.
get_richardson_coefficients(ratio, nmr_extrapolations) ==
    LET r2 == ratio * ratio
        r4 == r2 * r2
    IN  IF nmr_extrapolations = 0 THEN [k \in {0} |-> Rat(1)]
        ELSE IF nmr_extrapolations = 1
        THEN [k \in 0 .. 1 |-> IF k = 0 THEN Frac(-1, r2 - 1) ELSE Frac(r2, r2 - 1)]
        ELSE [k \in 0 .. 2 |->
                 IF k = 0 THEN Frac(1, (r2 - 1) * (r4 - 1))
                 ELSE IF k = 1 THEN Frac(-(r2 + r4), (r2 - 1) * (r4 - 1))
                 ELSE Frac(r2 * r4, (r2 - 1) * (r4 - 1))]

CoefficientLength(nsteps) == IF nsteps < 3 THEN nsteps ELSE 3

\* _richardson_extrapolation, lines 170-171
NmrConvolutionsNeeded(nsteps) == nsteps - (CoefficientLength(nsteps) - 2)
\* every convolution computed, the last one not dropped
all_convolutions(nsteps) == NmrConvolutionsNeeded(nsteps)

FinalNmrConvolutions(nsteps) == NmrConvolutionsNeeded(nsteps) - 1

\* an index beyond the last step wrapped to the front instead of mirrored
reflect_index_wrapped(step_ind, kernel_ind, nsteps) ==
    LET kernel_step_ind == step_ind + kernel_ind
    IN  IF kernel_step_ind >= nsteps THEN kernel_step_ind - nsteps ELSE kernel_step_ind

\* _apply_richardson_convolution: the index read for (step_ind, kernel_ind).
reflect_index(step_ind, kernel_ind, nsteps) ==
    LET kernel_step_ind == step_ind + kernel_ind
    IN  IF kernel_step_ind >= nsteps
        THEN kernel_step_ind - (2 * (kernel_step_ind - nsteps) + 1)
        ELSE kernel_step_ind

\* a convolution that applies the kernel back to front
apply_reversed_convolution(der, coef, nsteps, nconv) ==
    LET len == CoefficientLength(nsteps)
        RECURSIVE Acc(_, _)
        Acc(step_ind, kernel_ind) ==
            IF kernel_ind < 0 THEN Rat(0)
            ELSE FAdd(Acc(step_ind, kernel_ind - 1),
                      FMul(der[reflect_index(step_ind, kernel_ind, nsteps)],
                           coef[len - 1 - kernel_ind]))
    IN  [step_ind \in 0 .. (nconv - 1) |-> Acc(step_ind, len - 1)]

\* _apply_richardson_convolution for one row of steps.
apply_richardson_convolution(der, coef, nsteps, nconv) ==
    LET len == CoefficientLength(nsteps)
        RECURSIVE Acc(_, _)
        Acc(step_ind, kernel_ind) ==
            IF kernel_ind < 0 THEN Rat(0)
            ELSE FAdd(Acc(step_ind, kernel_ind - 1),
                      FMul(der[reflect_index(step_ind, kernel_ind, nsteps)], coef[kernel_ind]))
    IN  [step_ind \in 0 .. (nconv - 1) |-> Acc(step_ind, len - 1)]

\* fact of _compute_richardson_errors: 12.7062047361747 * sqrt(sum(coef ** 2)),
\* rounded down to a multiple of 1/2 (646 = 4 * 12.7062 ** 2, rounded).
richardson_fact(coef, len) ==
    LET RECURSIVE SumSq(_)
        SumSq(k) == IF k < 0 THEN Rat(0) ELSE FAdd(SumSq(k - 1), FMul(coef[k], coef[k]))
        q == FMul(Rat(646), SumSq(len - 1))
    IN  ClMax(Frac(ISqrt(q[1] \div q[2]), 2), FMul(MOT_EPSILON, Rat(10)))

\* _compute_richardson_errors for one row.
compute_richardson_errors(der, ext, coef, nsteps, nconv) ==
    LET fact == richardson_fact(coef, CoefficientLength(nsteps))
    IN  [conv_ind \in 0 .. (nconv - 2) |->
            LET tolerance == FMul(FMul(ClMax(FAbs(ext[conv_ind + 1]), FAbs(ext[conv_ind])),
                                       MOT_EPSILON), fact)
                error == FMul(FAbs(FSub(ext[conv_ind], ext[conv_ind + 1])), fact)
            IN  IF FLe(error, tolerance)
                THEN FAdd(error, FMul(tolerance, Rat(10)))
                ELSE FAdd(error,
                          FMul(FAbs(FSub(ext[conv_ind], der[nsteps - nconv + 1 + conv_ind])),
                               fact))]

\* _richardson_extrapolation: <<extrapolations[..., :final], errors>>
richardson_extrapolation(der, ratio, nsteps, n, p) ==
    LET coef == get_richardson_coefficients(ratio, CoefficientLength(nsteps) - 1)
        nconv == NmrConvolutionsNeeded(nsteps)
        final == FinalNmrConvolutions(nsteps)
        ext == [prob \in Problems(n) |-> [d \in 0 .. (NmrDerivatives(p) - 1) |->
                   apply_richardson_convolution(der[prob][d], coef, nsteps, nconv)]]
    IN  << [prob \in Problems(n) |-> [d \in 0 .. (NmrDerivatives(p) - 1) |->
               [c \in 0 .. (final - 1) |-> ext[prob][d][c]]]],
           [prob \in Problems(n) |-> [d \in 0 .. (NmrDerivatives(p) - 1) |->
               compute_richardson_errors(der[prob][d], ext[prob][d], coef, nsteps, nconv)]] >>

-----------------------------------------------------------------------------
(* numerical_hessian.py: Wynn extrapolation. *)

\* a + MOT_MIN in floating point: MOT_MIN is below the rounding unit of every
\* nonzero value of the model, so the sum is a unless a is zero; the one sum
\* that is exact is the cancellation -MOT_MIN + MOT_MIN = 0.
add_mot_min(a) ==
    IF IsZero(a) THEN MOT_MIN
    ELSE IF a = FNeg(MOT_MIN) THEN Rat(0)
    ELSE a

\* the deltas of a triple as the divisions use them (lines 645-651): a delta of a
\* magnitude below MOT_MIN is replaced by MOT_MIN
wynn_deltas(v0, v1, v2) ==
    << IF FLt(FAbs(FSub(v1, v0)), MOT_MIN) THEN MOT_MIN ELSE FSub(v1, v0),
       IF FLt(FAbs(FSub(v2, v1)), MOT_MIN) THEN MOT_MIN ELSE FSub(v2, v1) >>

\* ss = 1.0 / delta1 - 1.0 / delta0 + MOT_MIN (line 653)
wynn_ss(delta) == add_mot_min(FSub(FInv(delta[2]), FInv(delta[1])))

\* the convergence test (line 654) on the triple and the deltas in use
wynn_converged(v0, v1, v2, delta) ==
    \/ /\ FLe(FAbs(FSub(v1, v0)), FMul(ClMax(FAbs(v0), FAbs(v1)), MOT_EPSILON))
       /\ FLe(FAbs(FSub(v2, v1)), FMul(ClMax(FAbs(v1), FAbs(v2)), MOT_EPSILON))
    \/ FLe(FAbs(FMul(wynn_ss(delta), v1)), Frac(1, 1000))

\* the denominators of the divisions one loop pass of the kernel executes, in
\* order: 1.0 / delta1 and 1.0 / delta0 (line 653), then 1.0 / ss, which the
\* conditional expression of line 656 evaluates only when not converged
kernel_divisions(v0, v1, v2) ==
    LET delta == wynn_deltas(v0, v1, v2)
    IN  << delta[2], delta[1] >>
            \o (IF wynn_converged(v0, v1, v2, delta) THEN <<>> ELSE << wynn_ss(delta) >>)

\* mapping dea3 (lines 698-711): 1.0 / delta2 and 1.0 / delta1, then 1.0 / ss, which
\* np.where evaluates for every element, converged or not
dea3_denominators(e0, e1, e2) ==
    LET delta == wynn_deltas(e0, e1, e2)
    IN  << delta[2], delta[1], wynn_ss(delta) >>

\* _wynn_extrapolation_kernel: one triple; <<result, error>>
\* the Wynn step with the tolerance of the earlier pair in the error of a converged triple
wynn_step_earlier_tolerance(v0, v1, v2) ==
    LET err0 == FAbs(FSub(v1, v0))
        err1 == FAbs(FSub(v2, v1))
        tol0 == FMul(ClMax(FAbs(v0), FAbs(v1)), MOT_EPSILON)
        tol1 == FMul(ClMax(FAbs(v1), FAbs(v2)), MOT_EPSILON)
        delta0 == IF FLt(err0, MOT_MIN) THEN MOT_MIN ELSE FSub(v1, v0)
        delta1 == IF FLt(err1, MOT_MIN) THEN MOT_MIN ELSE FSub(v2, v1)
        ss == add_mot_min(FSub(FInv(delta1), FInv(delta0)))
        converged == (FLe(err0, tol0) /\ FLe(err1, tol1))
                        \/ FLe(FAbs(FMul(ss, v1)), Frac(1, 1000))
        result == IF converged THEN v2 ELSE FAdd(v1, FInv(ss))
    IN  << result,
           FAdd(FAdd(err0, err1),
                IF converged THEN FMul(tol0, Rat(10)) ELSE FAbs(FSub(result, v2))) >>

\* the accelerated value without the test for convergence
wynn_step_unguarded(v0, v1, v2) ==
    LET delta0 == IF FLt(FAbs(FSub(v1, v0)), MOT_MIN) THEN MOT_MIN ELSE FSub(v1, v0)
        delta1 == IF FLt(FAbs(FSub(v2, v1)), MOT_MIN) THEN MOT_MIN ELSE FSub(v2, v1)
        ss == add_mot_min(FSub(FInv(delta1), FInv(delta0)))
        result == FAdd(v1, FInv(ss))
    IN  << result,
           FAdd(FAdd(FAbs(FSub(v1, v0)), FAbs(FSub(v2, v1))), FAbs(FSub(result, v2))) >>

wynn_step(v0, v1, v2) ==
    LET err0 == FAbs(FSub(v1, v0))
        err1 == FAbs(FSub(v2, v1))
        tol0 == FMul(ClMax(FAbs(v0), FAbs(v1)), MOT_EPSILON)
        tol1 == FMul(ClMax(FAbs(v1), FAbs(v2)), MOT_EPSILON)
        delta0 == IF FLt(err0, MOT_MIN) THEN MOT_MIN ELSE FSub(v1, v0)
        delta1 == IF FLt(err1, MOT_MIN) THEN MOT_MIN ELSE FSub(v2, v1)
        ss == add_mot_min(FSub(FInv(delta1), FInv(delta0)))
        converged == (FLe(err0, tol0) /\ FLe(err1, tol1))
                        \/ FLe(FAbs(FMul(ss, v1)), Frac(1, 1000))
        result == IF converged THEN v2 ELSE FAdd(v1, FInv(ss))
    IN  << result,
           FAdd(FAdd(err0, err1),
                IF converged THEN FMul(tol1, Rat(10)) ELSE FAbs(FSub(result, v2))) >>

\* _wynn_extrapolate: <<extrapolations, errors>> with ncand - 2 candidates
\* the Wynn pass applied to its own output as long as more than two values remain
RECURSIVE wynn_repeated(_, _, _, _)
wynn_repeated(der, ncand, n, p) ==
    LET once == << [prob \in Problems(n) |-> [d \in 0 .. (NmrDerivatives(p) - 1) |->
                      [i \in 0 .. (ncand - 3) |->
                          wynn_step(der[prob][d][i], der[prob][d][i + 1],
                                    der[prob][d][i + 2])[1]]]],
                   [prob \in Problems(n) |-> [d \in 0 .. (NmrDerivatives(p) - 1) |->
                      [i \in 0 .. (ncand - 3) |->
                          wynn_step(der[prob][d][i], der[prob][d][i + 1],
                                    der[prob][d][i + 2])[2]]]] >>
    IN  IF ncand - 2 > 2 THEN wynn_repeated(once[1], ncand - 2, n, p) ELSE once

\* a pass over the pairs of neighbours, one value more than the pass over the triples
wynn_pairs(der, ncand, n, p) ==
    << [prob \in Problems(n) |-> [d \in 0 .. (NmrDerivatives(p) - 1) |->
           [i \in 0 .. (ncand - 2) |-> der[prob][d][i + 1]]]],
       [prob \in Problems(n) |-> [d \in 0 .. (NmrDerivatives(p) - 1) |->
           [i \in 0 .. (ncand - 2) |-> FAbs(FSub(der[prob][d][i + 1], der[prob][d][i]))]]] >>

wynn_extrapolate(der, ncand, n, p) ==
    << [prob \in Problems(n) |-> [d \in 0 .. (NmrDerivatives(p) - 1) |->
           [i \in 0 .. (ncand - 3) |->
               wynn_step(der[prob][d][i], der[prob][d][i + 1], der[prob][d][i + 2])[1]]]],
       [prob \in Problems(n) |-> [d \in 0 .. (NmrDerivatives(p) - 1) |->
           [i \in 0 .. (ncand - 3) |->
               wynn_step(der[prob][d][i], der[prob][d][i + 1], der[prob][d][i + 2])[2]]]] >>

-----------------------------------------------------------------------------
(* numerical_hessian.py: the median outlier selection. *)

\* F applied to the value of v, v evaluated once
Bind(v, F(_)) == CHOOSE r \in {F(x) : x \in {v}} : TRUE

\* the non-NaN candidates of one entry, as np.nanpercentile keeps them
valid_indices(der, ncand) == {i \in 0 .. (ncand - 1) : ~IsNaN(der[i])}

\* the j-th smallest of the non-NaN candidates
sorted_candidate(der, ncand, j) ==
    LET valid == valid_indices(der, ncand)
        i == CHOOSE i \in valid :
                /\ Cardinality({k \in valid : FLt(der[k], der[i])}) <= j
                /\ Cardinality({k \in valid : FLe(der[k], der[i])}) > j
    IN  der[i]

\* linear interpolation between the sorted candidates lo and hi, t = tn / td
lerp(a, b, tn, td) == IF tn = 0 THEN a ELSE FAdd(a, FMul(FSub(b, a), Frac(tn, td)))

percentile_at(der, ncand, n, lo, qn, qd) ==
    lerp(sorted_candidate(der, ncand, lo),
         sorted_candidate(der, ncand, IF lo + 1 > n - 1 THEN n - 1 ELSE lo + 1),
         qn * (n - 1) - lo * qd, qd)

percentile_of(der, ncand, n, qn, qd) ==
    IF n = 0 THEN NaN ELSE percentile_at(der, ncand, n, (qn * (n - 1)) \div qd, qn, qd)

\* np.nanpercentile(der, q) with linear interpolation, q = qn / qd
nanpercentile(der, ncand, qn, qd) ==
    percentile_of(der, ncand, Cardinality(valid_indices(der, ncand)), qn, qd)

\* a > 1 / k for a non-negative a
greater_than_reciprocal(a, k) ==
    IF IsNaN(a) THEN FALSE ELSE IF IsInf(a) THEN a = PosInf ELSE a[1] > a[2] \div k

\* a boolean times a float, as numpy multiplies them
bool_times(flag, x) == IF flag THEN x ELSE FMul(Rat(0), x)

\* the outliers expression without the test of the median magnitude
is_outlier_unguarded(x, p25, p75, iqr, a_median) ==
    \/ FLt(FAbs(x), FDiv(a_median, Rat(10)))
    \/ FGt(FAbs(x), FMul(a_median, Rat(10)))
    \/ FLt(x, FSub(p25, FMul(Frac(3, 2), iqr)))
    \/ FLt(FAdd(p75, FMul(Frac(3, 2), iqr)), x)

\* the outliers expression of _get_median_outliers_errors, trim_fact = 10
is_outlier(x, p25, p75, iqr, a_median) ==
    \/ /\ \/ FLt(FAbs(x), FDiv(a_median, Rat(10)))
          \/ FGt(FAbs(x), FMul(a_median, Rat(10)))
       /\ greater_than_reciprocal(a_median, 100000000)
    \/ FLt(x, FSub(p25, FMul(Frac(3, 2), iqr)))
    \/ FLt(FAdd(p75, FMul(Frac(3, 2), iqr)), x)

outliers_errors_with(der, ncand, p25, median, p75) ==
    [i \in 0 .. (ncand - 1) |->
        bool_times(is_outlier(der[i], p25, p75, FAbs(FSub(p75, p25)), FAbs(median)),
                   FAbs(FSub(der[i], median)))]

\* _get_median_outliers_errors for one entry
get_median_outliers_errors(der, ncand) ==
    outliers_errors_with(der, ncand, nanpercentile(der, ncand, 1, 4),
                         nanpercentile(der, ncand, 1, 2), nanpercentile(der, ncand, 3, 4))

\* np.nanargmin raises ValueError on an all-NaN slice
Raises == -1

argmin_first(a, ncand) ==
    CHOOSE i \in 0 .. (ncand - 1) :
        /\ \A k \in 0 .. (ncand - 1) : FLe(a[i], a[k])
        /\ \A k \in 0 .. (i - 1) : FLt(a[i], a[k])

\* np.nanargmin over one entry: Raises for an all-NaN slice, else the first
\* index of the minimum with every NaN replaced by +inf
nanargmin(err, ncand) ==
    IF \A i \in 0 .. (ncand - 1) : IsNaN(err[i]) THEN Raises
    ELSE argmin_first([i \in 0 .. (ncand - 1) |-> IF IsNaN(err[i]) THEN PosInf ELSE err[i]],
                      ncand)

\* lines 240-247: selection and the NaN restored for an all-NaN entry
select_final(der, err, all_nan, minpos) ==
    [ all_nan |-> all_nan, derivatives |-> der, errors |-> err, minpos |-> minpos,
      derivative_final |-> IF minpos = Raises \/ all_nan THEN NaN ELSE der[minpos],
      error_final |-> IF minpos = Raises \/ all_nan THEN NaN ELSE err[minpos] ]

\* the errors without the outlier penalty
keep_errors(err, penalty, ncand) == err

add_errors(err, penalty, ncand) == [i \in 0 .. (ncand - 1) |-> FAdd(err[i], penalty[i])]

\* lines 238-244: errors += the outlier penalties, then the selection
penalize_and_select(der, err, all_nan, ncand) ==
    Bind(add_errors(err, get_median_outliers_errors(der, ncand), ncand),
         LAMBDA penalized :
             select_final(der, penalized, all_nan, nanargmin(penalized, ncand)))

\* lines 234-236: the zero sentinel in candidate 0 of an entry whose errors are all NaN
with_sentinel(arr, all_nan) == IF all_nan THEN [arr EXCEPT ![0] = Rat(0)] ELSE arr

sentinel_and_select(der, err, all_nan, ncand) ==
    penalize_and_select(with_sentinel(der, all_nan), with_sentinel(err, all_nan), all_nan, ncand)

\* _median_outlier_extrapolation for one entry: the arrays after the in-place
\* updates, the selected position and the final value and error
median_outlier_entry(der, err, ncand) ==
    sentinel_and_select(der, err, \A i \in 0 .. (ncand - 1) : IsNaN(err[i]), ncand)

median_outlier_extrapolation(der, err, ncand, n, p) ==
    [prob \in Problems(n) |-> [d \in 0 .. (NmrDerivatives(p) - 1) |->
        median_outlier_entry(der[prob][d], err[prob][d], ncand)]]

-----------------------------------------------------------------------------
(* numerical_hessian: the call. *)

None == "None"

\* arr.shape[2]
Shape2(arr) == Cardinality(DOMAIN arr[0][0])

\* no packed index is in use
TriIdle ==
    /\ tri_pc = "idle"
    /\ tri_params = 0
    /\ tri_pair = None
    /\ tri_index = None
    /\ tri_coord = None

\* no Processor exists
SchedIdle ==
    /\ sched_pc = "idle"
    /\ sched_kind = None
    /\ sched_options = None
    /\ subprocessors = <<>>
    /\ cl_environments = <<>>
    /\ nmr_instances = 0
    /\ batches = <<>>
    /\ queues = <<>>
    /\ completed = <<>>
    /\ workers = <<>>
    /\ launched = <<>>
    /\ nmr_runs = 0
    /\ use_local_reduction = FALSE
    /\ local_size = 0
    /\ geometry = <<>>

\* no mapping kernel has been set up
MapIdle ==
    /\ map_pc = "idle"
    /\ map_args = None
    /\ map_computed = {}
    /\ map_within_bounds = None
    /\ map_steps = None
    /\ map_step_evaluates = None
    /\ map_step_evaluates_convoluted = None

\* _median_outlier_extrapolation is not in use on its own
SelIdle ==
    /\ sel_pc = "idle"
    /\ sel_ncand = 0
    /\ sel_derivatives = None
    /\ sel_errors = None
    /\ sel_result = None

\* no Wynn work item is in use on its own
WynnIdle ==
    /\ wynn_pc = "idle"
    /\ wynn_triple = None
    /\ wynn_result = None
    /\ wynn_divisions = <<>>
    /\ dea3_divisions = <<>>

\* no lane of the reduction is in use
ReduceIdle ==
    /\ red_pc = <<>>
    /\ red_workgroup_size = 0
    /\ red_observations = 0
    /\ red_calls = 0
    /\ red_call = <<>>
    /\ red_i = <<>>
    /\ red_ll = <<>>
    /\ local_reduction_lls = <<>>
    /\ red_returned = <<>>
    /\ red_evaluated = <<>>

\* no lane of the compute kernel is in use
GroupIdle ==
    /\ grp_pc = <<>>
    /\ grp_size = 0
    /\ grp_args = None
    /\ grp_within_bounds = None
    /\ grp_observed = <<>>
    /\ grp_writers = {}
    /\ grp_coherent = TRUE

\* no lane of the derivation kernel is in use
EvalIdle ==
    /\ ev_pc = <<>>
    /\ ev_size = 0
    /\ ev_calls = 0
    /\ ev_objective_barrier = FALSE
    /\ ev_call = <<>>
    /\ ev_x_tmp = None
    /\ ev_read = <<>>

LanesIdle == ReduceIdle /\ GroupIdle /\ EvalIdle

Init ==
    \E s \in Scenarios, n \in {1, MaxProblems}, p \in 1 .. MaxParams,
       ns \in 1 .. MaxLongSteps :
        /\ ns \in s.ns
        /\ pc = "start"
        /\ nmr_params = p
        /\ nmr_problems = n
        /\ nmr_steps = ns
        /\ step_ratio = s.ratio
        /\ step_offset = s.offset
        /\ model = ModelOf(s.b, s.sc, s.f, s.t, p)
        /\ parameters \in ParameterMatrices(n, p, s.v)
        /\ initial_step = None
        /\ steps = None
        /\ step_evaluates = None
        /\ derivatives = None
        /\ errors = None
        /\ selector_args = None
        /\ stages = <<>>
        /\ hessian = None
        /\ TriIdle
        /\ SchedIdle
        /\ MapIdle
        /\ SelIdle
        /\ WynnIdle
        /\ LanesIdle

\* _compute_derivatives (lines 112-149): initial steps, then the derivation kernel.
ComputeDerivatives ==
    /\ pc = "start"
    /\ initial_step' = offset_initial_step(
                           get_initial_step_size(model, parameters, nmr_problems, nmr_params),
                           step_ratio, step_offset, nmr_problems, nmr_params)
    /\ steps' = [prob \in Problems(nmr_problems) |-> [px \in Params(nmr_params) |->
                    [step_ind \in 0 .. (nmr_steps - 1) |->
                        step_size(initial_step'[prob], step_ratio, px, step_ind)]]]
    /\ step_evaluates' = derivation_kernel(model, parameters, initial_step', step_ratio,
                                           nmr_steps, nmr_problems, nmr_params)
    /\ derivatives' = step_evaluates'
    /\ stages' = Append(stages, "central")
    /\ pc' = "computed"
    /\ UNCHANGED <<nmr_params, nmr_problems, nmr_steps, step_ratio, step_offset, model,
                   parameters, errors, selector_args, hessian>>
    /\ UNCHANGED ovars

\* lines 94-95: nmr_steps == 1
ReturnRaw ==
    /\ pc = "computed"
    /\ nmr_steps = 1
    /\ hessian' = finalize_derivatives(first_candidate(derivatives, nmr_problems, nmr_params),
                                       model, nmr_problems, nmr_params)
    /\ stages' = Append(stages, "finalize")
    /\ pc' = "done"
    /\ UNCHANGED <<nmr_params, nmr_problems, nmr_steps, step_ratio, step_offset, model,
                   parameters, initial_step, steps, step_evaluates, derivatives, errors,
                   selector_args>>
    /\ UNCHANGED ovars

\* line 97: _richardson_extrapolation
Richardson ==
    /\ pc = "computed"
    /\ nmr_steps # 1
    /\ LET r == richardson_extrapolation(derivatives, step_ratio, nmr_steps,
                                         nmr_problems, nmr_params)
       IN  derivatives' = r[1] /\ errors' = r[2]
    /\ stages' = Append(stages, "richardson")
    /\ pc' = "richardson"
    /\ UNCHANGED <<nmr_params, nmr_problems, nmr_steps, step_ratio, step_offset, model,
                   parameters, initial_step, steps, step_evaluates, selector_args, hessian>>
    /\ UNCHANGED ovars

\* lines 99-100: nmr_steps <= 3
ReturnRichardson ==
    /\ pc = "richardson"
    /\ nmr_steps <= 3
    /\ hessian' = finalize_derivatives(first_candidate(derivatives, nmr_problems, nmr_params),
                                       model, nmr_problems, nmr_params)
    /\ stages' = Append(stages, "finalize")
    /\ pc' = "done"
    /\ UNCHANGED <<nmr_params, nmr_problems, nmr_steps, step_ratio, step_offset, model,
                   parameters, initial_step, steps, step_evaluates, derivatives, errors,
                   selector_args>>
    /\ UNCHANGED ovars

\* lines 102-103: _wynn_extrapolate when there are more than two candidates
Wynn ==
    /\ pc = "richardson"
    /\ nmr_steps > 3
    /\ Shape2(derivatives) > 2
    /\ LET w == wynn_extrapolate(derivatives, Shape2(derivatives), nmr_problems, nmr_params)
       IN  derivatives' = w[1] /\ errors' = w[2]
    /\ stages' = Append(stages, "wynn")
    /\ pc' = "wynn"
    /\ UNCHANGED <<nmr_params, nmr_problems, nmr_steps, step_ratio, step_offset, model,
                   parameters, initial_step, steps, step_evaluates, selector_args, hessian>>
    /\ UNCHANGED ovars

\* line 105 is reached: after Wynn, or after Richardson when Wynn is skipped
AtCandidateCount ==
    \/ pc = "wynn"
    \/ pc = "richardson" /\ nmr_steps > 3 /\ Shape2(derivatives) <= 2

\* lines 105-106: a single candidate is returned as it is
ReturnSingle ==
    /\ AtCandidateCount
    /\ Shape2(derivatives) = 1
    /\ hessian' = finalize_derivatives(first_candidate(derivatives, nmr_problems, nmr_params),
                                       model, nmr_problems, nmr_params)
    /\ stages' = Append(stages, "finalize")
    /\ pc' = "done"
    /\ UNCHANGED <<nmr_params, nmr_problems, nmr_steps, step_ratio, step_offset, model,
                   parameters, initial_step, steps, step_evaluates, derivatives, errors,
                   selector_args>>
    /\ UNCHANGED ovars

\* lines 108-109: _median_outlier_extrapolation, then finalize_derivatives;
\* np.nanargmin raises on a slice that holds nothing but NaN
MedianOutlier ==
    /\ AtCandidateCount
    /\ Shape2(derivatives) # 1
    /\ selector_args' = <<derivatives, errors>>
    /\ LET sel == median_outlier_extrapolation(derivatives, errors, Shape2(derivatives),
                                               nmr_problems, nmr_params)
           entries == Problems(nmr_problems) \X (0 .. (NmrDerivatives(nmr_params) - 1))
       IN  IF \E e \in entries : sel[e[1]][e[2]].minpos = Raises
           THEN /\ pc' = "raised"
                /\ stages' = Append(stages, "select")
                /\ UNCHANGED <<derivatives, errors, hessian>>
           ELSE /\ derivatives' = [prob \in Problems(nmr_problems) |->
                                      [d \in 0 .. (NmrDerivatives(nmr_params) - 1) |->
                                          sel[prob][d].derivative_final]]
                /\ errors' = [prob \in Problems(nmr_problems) |->
                                 [d \in 0 .. (NmrDerivatives(nmr_params) - 1) |->
                                     sel[prob][d].error_final]]
                /\ hessian' = finalize_derivatives(derivatives', model, nmr_problems, nmr_params)
                /\ stages' = stages \o <<"select", "finalize">>
                /\ pc' = "done"
    /\ UNCHANGED <<nmr_params, nmr_problems, nmr_steps, step_ratio, step_offset, model,
                   parameters, initial_step, steps, step_evaluates>>
    /\ UNCHANGED ovars

Next ==
    \/ ComputeDerivatives
    \/ ReturnRaw
    \/ Richardson
    \/ ReturnRichardson
    \/ Wynn
    \/ ReturnSingle
    \/ MedianOutlier

vars == <<hvars, ovars>>

Spec == Init /\ [][Next]_vars

-----------------------------------------------------------------------------
(* Properties of the numerical_hessian call. *)

Done == pc = "done"

\* the position of the pair (i, j), i <= j, in the row-major upper triangle
TriangleIndex(i, j, p) == i * p - (i * (i - 1)) \div 2 + (j - i)
PairIndex(i, j, p) == IF i <= j THEN TriangleIndex(i, j, p) ELSE TriangleIndex(j, i, p)

SameValue(a, b) == a = b

Entries == Problems(nmr_problems) \X Params(nmr_params) \X Params(nmr_params)

\* C1: in the returned Hessian the entries (i, j) and (j, i) of every problem hold
\* the same value, whichever of the paths (1 step, 2..3 steps, more) produced it.
C1_Symmetric ==
    Done => \A e \in Entries : SameValue(hessian[e[1]][e[2]][e[3]], hessian[e[1]][e[3]][e[2]])

\* C1 happens: a call that went through the selection returned a matrix with unequal
\* scalings, a finite non-zero off-diagonal entry and differing diagonal entries.
C1_Witness ==
    /\ Done
    /\ nmr_params >= 2
    /\ nmr_steps > 3
    /\ model.scaling[0] # model.scaling[1]
    /\ IsFinite(hessian[0][0][1]) /\ ~IsZero(hessian[0][0][1])
    /\ hessian[0][0][0] # hessian[0][1][1]

\* the scaling product finalize_derivatives multiplies entry (i, j) by
ScalingProduct(i, j) == FMul(model.scaling[i], model.scaling[j])

\* C4: with nmr_steps = 1 every entry of the result is the raw central difference of
\* step index 0, rescaled; only the central-difference stage and the finalisation ran
\* and no error array was produced.
C4_SingleStepRaw ==
    (Done /\ nmr_steps = 1) =>
        /\ stages = <<"central", "finalize">>
        /\ errors = None
        /\ selector_args = None
        /\ \A e \in Entries :
              hessian[e[1]][e[2]][e[3]] =
                  FMul(step_evaluates[e[1]][PairIndex(e[2], e[3], nmr_params)][0],
                       ScalingProduct(e[2], e[3]))

\* C4 happens: a one-step call returned, with unequal scalings and a finite
\* non-zero off-diagonal entry.
C4_Witness ==
    /\ Done
    /\ nmr_steps = 1
    /\ nmr_params >= 2
    /\ model.scaling[0] # model.scaling[1]
    /\ IsFinite(hessian[0][0][1]) /\ ~IsZero(hessian[0][0][1])

\* the first Richardson candidate of a row of two or three raw differences
FirstRichardsonCandidate(d, r, nsteps) ==
    IF nsteps = 2
    THEN FDiv(FSub(FMul(Rat(r * r), d[1]), d[0]), Rat(r * r - 1))
    ELSE FDiv(FAdd(FSub(d[0], FMul(Rat(r * r + r * r * r * r), d[1])),
                   FMul(Rat(r * r * r * r * r * r), d[2])),
              Rat((r * r - 1) * (r * r * r * r - 1)))

\* C5: with nmr_steps 2 or 3 exactly one Richardson pass ran and every entry of the
\* result is the first Richardson candidate, rescaled; neither the Wynn stage nor the
\* selection ran.
C5_FirstRichardsonCandidate ==
    (Done /\ nmr_steps \in {2, 3}) =>
        /\ stages = <<"central", "richardson", "finalize">>
        /\ selector_args = None
        /\ \A e \in Entries :
              hessian[e[1]][e[2]][e[3]] =
                  FMul(FirstRichardsonCandidate(
                           step_evaluates[e[1]][PairIndex(e[2], e[3], nmr_params)],
                           step_ratio, nmr_steps),
                       ScalingProduct(e[2], e[3]))

\* C5 happens: a three-step call returned a finite entry that differs from the raw
\* difference of step 0, so the extrapolation did change the value.
C5_Witness ==
    /\ Done
    /\ nmr_steps = 3
    /\ IsFinite(hessian[0][0][0])
    /\ hessian[0][0][0] # FMul(step_evaluates[0][0][0], ScalingProduct(0, 0))

Started == pc # "start"

ProblemParams == Problems(nmr_problems) \X Params(nmr_params)

\* C6: the step of every problem and parameter at step index i is the initial step
\* divided by step_ratio^i, so consecutive steps shrink by exactly the ratio and, for
\* a positive initial step, strictly decrease; a step offset k multiplies the initial
\* step by step_ratio^(-k) first.  With no bounds, maximum step 2, ratio 2 and four
\* steps the steps are 2, 1, 1/2, 1/4, and 1/2, 1/4, 1/8, 1/16 with offset 2.
C6_GeometricSteps ==
    Started =>
        \A e \in ProblemParams :
            /\ FMul(initial_step[e[1]][e[2]], Rat(IntPow(step_ratio, step_offset)))
                   = get_initial_step_size(model, parameters, nmr_problems,
                                           nmr_params)[e[1]][e[2]]
            /\ \A i \in 0 .. (nmr_steps - 1) :
                   FMul(steps[e[1]][e[2]][i], Rat(IntPow(step_ratio, i)))
                       = initial_step[e[1]][e[2]]
            /\ \A i \in 0 .. (nmr_steps - 2) :
                   /\ FMul(steps[e[1]][e[2]][i + 1], Rat(step_ratio)) = steps[e[1]][e[2]][i]
                   /\ FGt(initial_step[e[1]][e[2]], Rat(0))
                          => FLt(steps[e[1]][e[2]][i + 1], steps[e[1]][e[2]][i])
            /\ (~model.use_bounds[e[2]] /\ step_ratio = 2 /\ nmr_steps = 4 /\ step_offset = 0)
                   => steps[e[1]][e[2]] = [i \in 0 .. 3 |-> Frac(2, IntPow(2, i))]
            /\ (~model.use_bounds[e[2]] /\ step_ratio = 2 /\ nmr_steps = 4 /\ step_offset = 2)
                   => steps[e[1]][e[2]] = [i \in 0 .. 3 |-> Frac(1, IntPow(2, i + 1))]

\* C6 happens: the unbounded four-step call with ratio 2 and offset 2 computed its
\* steps, the first of them 1/2.
C6_Witness ==
    /\ pc = "computed"
    /\ ~model.use_bounds[0]
    /\ step_ratio = 2
    /\ nmr_steps = 4
    /\ step_offset = 2
    /\ steps[0][0][0] = Frac(1, 2)

\* a side of the bounds of parameter ind is used
LowerUsed(ind) == model.use_bounds[ind] /\ model.use_lower[ind]
UpperUsed(ind) == model.use_bounds[ind] /\ model.use_upper[ind]

DistanceToLower(prob, ind) == FAbs(FSub(parameters[prob][ind], model.lower[ind]))
DistanceToUpper(prob, ind) == FAbs(FSub(model.upper[ind], parameters[prob][ind]))

BoundClearance(prob, ind) ==
    IF LowerUsed(ind) /\ UpperUsed(ind)
    THEN NpMinimum(DistanceToLower(prob, ind), DistanceToUpper(prob, ind))
    ELSE IF LowerUsed(ind) THEN DistanceToLower(prob, ind)
    ELSE DistanceToUpper(prob, ind)

\* C7: the initial step of every problem and parameter is the smaller of the
\* maximum step and clearance * scaling, the clearance being the distance to the one
\* used bound, or the smaller distance when both sides are used; when neither side
\* is used it is the maximum step; it never exceeds the maximum step.
C7_InitialStepRule ==
    (Started /\ step_offset = 0) =>
        \A e \in ProblemParams :
            /\ initial_step[e[1]][e[2]] =
                   IF ~LowerUsed(e[2]) /\ ~UpperUsed(e[2]) THEN model.max_step[e[2]]
                   ELSE NpMinimum(model.max_step[e[2]],
                                  FMul(BoundClearance(e[1], e[2]), model.scaling[e[2]]))
            /\ FLe(initial_step[e[1]][e[2]], model.max_step[e[2]])

\* C7's failing case: numdiff_use_bounds is set, neither side flag is, and the
\* initial step of an interior point is below the maximum step.
C7_Witness ==
    /\ Started
    /\ step_offset = 0
    /\ \E e \in ProblemParams :
          /\ model.use_bounds[e[2]] /\ ~model.use_lower[e[2]] /\ ~model.use_upper[e[2]]
          /\ FLt(initial_step[e[1]][e[2]], model.max_step[e[2]])

\* numerical_hessian (lines 90-109) as one function of its arguments: the result
\* of the call, or Raises
select_and_finalize(m, sel, n, p) ==
    IF \E prob \in Problems(n), d \in 0 .. (NmrDerivatives(p) - 1) : sel[prob][d].minpos = Raises
    THEN Raises
    ELSE finalize_derivatives(
             [prob \in Problems(n) |-> [d \in 0 .. (NmrDerivatives(p) - 1) |->
                 sel[prob][d].derivative_final]], m, n, p)

after_selection(m, w, n, p) ==
    Bind(median_outlier_extrapolation(w[1], w[2], Shape2(w[1]), n, p),
         LAMBDA sel : select_and_finalize(m, sel, n, p))

after_wynn(m, w, n, p) ==
    IF Shape2(w[1]) = 1 THEN finalize_derivatives(first_candidate(w[1], n, p), m, n, p)
    ELSE after_selection(m, w, n, p)

after_richardson(m, r, nsteps, n, p) ==
    IF nsteps <= 3 THEN finalize_derivatives(first_candidate(r[1], n, p), m, n, p)
    ELSE IF Shape2(r[1]) > 2
    THEN Bind(wynn_extrapolate(r[1], Shape2(r[1]), n, p), LAMBDA w : after_wynn(m, w, n, p))
    ELSE after_wynn(m, r, n, p)

after_central(m, raw, ratio, nsteps, n, p) ==
    IF nsteps = 1 THEN finalize_derivatives(first_candidate(raw, n, p), m, n, p)
    ELSE Bind(richardson_extrapolation(raw, ratio, nsteps, n, p),
              LAMBDA r : after_richardson(m, r, nsteps, n, p))

after_initial_step(m, params, istep, ratio, nsteps, n, p) ==
    Bind(derivation_kernel(m, params, istep, ratio, nsteps, n, p),
         LAMBDA raw : after_central(m, raw, ratio, nsteps, n, p))

hessian_of(m, params, ratio, offset, nsteps, n, p) ==
    Bind(offset_initial_step(get_initial_step_size(m, params, n, p), ratio, offset, n, p),
         LAMBDA istep : after_initial_step(m, params, istep, ratio, nsteps, n, p))

\* the parameters of a problem with zero clearance to a bound that is in use
DegenerateParams(prob) ==
    {k \in Params(nmr_params) :
        \/ LowerUsed(k) /\ parameters[prob][k] = model.lower[k]
        \/ UpperUsed(k) /\ parameters[prob][k] = model.upper[k]}

HasDegenerate == \E prob \in Problems(nmr_problems) : DegenerateParams(prob) # {}

\* problem prob has the Hessian it gets in a batch of its own
SameAsAlone(prob) ==
    hessian_of(model, (0 :> parameters[prob]), step_ratio, step_offset, nmr_steps,
               1, nmr_params) = (0 :> hessian[prob])

\* C8: when a parameter of one problem has zero clearance to a bound in use, the call
\* does not raise, every entry of that problem that involves the parameter is NaN, and
\* every other problem of the batch gets the Hessian it gets when computed alone.
C8_DegenerateParameter ==
    HasDegenerate =>
        /\ pc # "raised"
        /\ Done =>
              /\ \A e \in Entries :
                     (e[2] \in DegenerateParams(e[1]) \/ e[3] \in DegenerateParams(e[1]))
                         => IsNaN(hessian[e[1]][e[2]][e[3]])
              /\ \A prob \in Problems(nmr_problems) :
                     DegenerateParams(prob) = {} => SameAsAlone(prob)

\* C8's failing case: a call returned with an infinite entry on the diagonal of a
\* parameter that has zero clearance, beside a problem with finite entries.
C8_Witness ==
    /\ Done
    /\ nmr_problems >= 2
    /\ \E prob \in Problems(nmr_problems), k \in Params(nmr_params) :
          /\ k \in DegenerateParams(prob)
          /\ IsInf(hessian[prob][k][k])
    /\ \E prob \in Problems(nmr_problems) :
          DegenerateParams(prob) = {} /\ IsFinite(hessian[prob][0][0])

\* the selector has returned or raised
Selected == selector_args # None

DerivativeEntries == Problems(nmr_problems) \X (0 .. (NmrDerivatives(nmr_params) - 1))

\* the candidate values the selector was called with, for one entry
Candidates(e) == selector_args[1][e[1]][e[2]]
CandidateIndices == 0 .. (Shape2(selector_args[1]) - 1)

\* C10: in the selector an entry whose candidates are all NaN gets a NaN final value
\* and a NaN final error, never the 0 of the sentinel; an entry with a candidate that
\* is not NaN gets one of its non-NaN candidates.
C10_SelectorNaN ==
    Selected =>
        /\ Done
        /\ \A e \in DerivativeEntries :
              IF \A i \in CandidateIndices : IsNaN(Candidates(e)[i])
              THEN IsNaN(derivatives[e[1]][e[2]]) /\ IsNaN(errors[e[1]][e[2]])
              ELSE /\ ~IsNaN(derivatives[e[1]][e[2]])
                   /\ \E i \in CandidateIndices : derivatives[e[1]][e[2]] = Candidates(e)[i]

\* C10's failing case: the selector returned NaN for an entry that has a candidate
\* which is not NaN.
C10_Witness ==
    /\ Selected
    /\ Done
    /\ \E e \in DerivativeEntries :
          /\ \E i \in CandidateIndices : ~IsNaN(Candidates(e)[i])
          /\ IsNaN(derivatives[e[1]][e[2]])

-----------------------------------------------------------------------------
(* The stages of the extrapolation. *)

\* f(x) = x1^2 + x2^2 at x = (1, 1), step ratio 2, five steps, no bounds, unit scaling
QuadraticCall ==
    /\ model = ModelOf("none", "unit", "sumsq", "identity", 2)
    /\ nmr_params = 2
    /\ step_ratio = 2
    /\ nmr_steps = 5
    /\ \A prob \in Problems(nmr_problems) : parameters[prob] = InteriorPoint(2)

\* |a - b| <= 1e-4
WithinTolerance(a, b) == FLe(FAbs(FSub(a, b)), Frac(1, 10000))

\* the raw differences of an entry are one finite value at every step
RawConstant(prob, d) ==
    /\ IsFinite(step_evaluates[prob][d][0])
    /\ \A s \in 0 .. (nmr_steps - 1) : step_evaluates[prob][d][s] = step_evaluates[prob][d][0]

\* C14: the quadratic call runs the central differences, one Richardson pass and one
\* Wynn pass and returns [[2, 0], [0, 2]] within 1e-4; in every call, an entry whose
\* raw differences are constant over the steps has that value in every candidate
\* after the Richardson pass and after the Wynn pass.
C14_QuadraticHessian ==
    /\ (Done /\ QuadraticCall) =>
          /\ stages = <<"central", "richardson", "wynn", "finalize">>
          /\ \A prob \in Problems(nmr_problems), i, j \in Params(nmr_params) :
                WithinTolerance(hessian[prob][i][j], IF i = j THEN Rat(2) ELSE Rat(0))
    /\ pc \in {"richardson", "wynn"} =>
          \A prob \in Problems(nmr_problems), d \in 0 .. (NmrDerivatives(nmr_params) - 1) :
              RawConstant(prob, d) =>
                  \A c \in DOMAIN derivatives[prob][d] :
                      derivatives[prob][d][c] = step_evaluates[prob][d][0]

\* the quadratic call has returned, with step_offset left at its default
C14_Witness ==
    /\ Done
    /\ QuadraticCall
    /\ step_offset = 0
    /\ hessian[0][0][0] = Rat(2)
    /\ hessian[0][0][1] = Rat(0)
    /\ RawConstant(0, 0)

\* nmr_steps - (coefficient_length - 1) with coefficient_length = min(nmr_steps, 3)
RichardsonCandidates(nsteps) == nsteps - ((IF nsteps < 3 THEN nsteps ELSE 3) - 1)

\* the stage was executed in this call
Ran(stage) == \E k \in 1 .. Len(stages) : stages[k] = stage

\* the call is past line 103, where the Wynn stage is run or skipped
PastWynn == pc \in {"wynn", "done", "raised"}

\* C15 as stated: the Wynn stage runs exactly when nmr_steps > 3, at least three
\* Richardson candidates remaining for every nmr_steps > 3.
C15_WynnAboveThreeSteps ==
    /\ PastWynn => (Ran("wynn") <=> nmr_steps > 3)
    /\ (pc = "richardson" /\ nmr_steps > 3) => Shape2(derivatives) >= 3

\* C15, amended: the Wynn stage runs exactly when the Richardson stage leaves at
\* least three candidates, which is when nmr_steps > 4; with nmr_steps = 4 two
\* candidates remain and the Wynn stage does not run, with nmr_steps <= 3 it never runs.
C15_WynnFromThreeCandidates ==
    /\ PastWynn => (Ran("wynn") <=> nmr_steps > 4)
    /\ pc = "richardson" => (Shape2(derivatives) >= 3 <=> nmr_steps > 4)
    /\ pc = "wynn" => RichardsonCandidates(nmr_steps) >= 3

\* a call with four steps went from the Richardson stage to the selection
C15_Witness ==
    /\ Done
    /\ nmr_steps = 4
    /\ stages = <<"central", "richardson", "select", "finalize">>
    /\ Shape2(selector_args[1]) = 2

\* the candidates the selection was called with
SelectorCandidates == Shape2(selector_args[1])

\* the number of times the stage was executed in this call
TimesRan(stage) == Cardinality({k \in 1 .. Len(stages) : stages[k] = stage})

\* C16 as stated: for every nmr_steps > 3 the selection receives at most two
\* candidates per entry.
C16_AtMostTwoCandidates ==
    (selector_args # None /\ nmr_steps > 3) => SelectorCandidates <= 2

\* C16, amended: the Wynn stage runs at most once in a call, turning the n >= 3
\* Richardson candidates into n - 2, so the selection receives two candidates for
\* nmr_steps = 4 and nmr_steps - 4 candidates for nmr_steps >= 6, which is more than
\* two from nmr_steps = 7 on.
C16_SingleWynnPass ==
    /\ TimesRan("wynn") <= 1
    /\ pc = "wynn" => Shape2(derivatives) = RichardsonCandidates(nmr_steps) - 2
    /\ selector_args # None =>
          /\ nmr_steps > 3
          /\ SelectorCandidates = IF nmr_steps = 4 THEN 2 ELSE nmr_steps - 4
          /\ SelectorCandidates >= 2

\* a call with seven steps handed three candidates per entry to the selection
C16_Witness ==
    /\ Done
    /\ nmr_steps = 7
    /\ TimesRan("wynn") = 1
    /\ SelectorCandidates = 3

\* the candidate axis of arr has exactly the indices 0 .. count - 1
HasCandidates(arr, count) ==
    \A prob \in Problems(nmr_problems), d \in 0 .. (NmrDerivatives(nmr_params) - 1) :
        DOMAIN arr[prob][d] = 0 .. (count - 1)

\* C17: the Richardson stage returns nmr_steps - (coefficient_length - 1) candidates
\* and as many errors, coefficient_length being min(nmr_steps, 3); the Wynn stage
\* is given n >= 3 candidates and returns n - 2 values and n - 2 errors; the count
\* never grows from the raw differences to the selection.
C17_CandidateCounts ==
    /\ pc = "computed" => HasCandidates(derivatives, nmr_steps)
    /\ pc = "richardson" =>
          /\ nmr_steps >= 2
          /\ HasCandidates(derivatives, RichardsonCandidates(nmr_steps))
          /\ HasCandidates(errors, RichardsonCandidates(nmr_steps))
          /\ RichardsonCandidates(nmr_steps) <= nmr_steps
          /\ RichardsonCandidates(nmr_steps) >= 1
    /\ pc = "wynn" =>
          /\ RichardsonCandidates(nmr_steps) >= 3
          /\ HasCandidates(derivatives, RichardsonCandidates(nmr_steps) - 2)
          /\ HasCandidates(errors, RichardsonCandidates(nmr_steps) - 2)
    /\ selector_args # None =>
          /\ Shape2(selector_args[1]) = Shape2(selector_args[2])
          /\ Shape2(selector_args[1]) <= RichardsonCandidates(nmr_steps)

\* a Wynn pass turned the four Richardson candidates of a six step call into two
C17_Witness ==
    /\ pc = "wynn"
    /\ nmr_steps = 6
    /\ HasCandidates(derivatives, 2)
    /\ HasCandidates(errors, 2)

-----------------------------------------------------------------------------
(* The packed derivative index on its own: the kernel writes the derivative of the
   pair coords[k] at linear index k, _results_vector_to_matrix reads linear indices
   back into matrix positions. *)

MaxTriParams == 6

\* no numerical_hessian call is in progress
HessianIdle ==
    /\ pc = "idle"
    /\ nmr_params = 0
    /\ nmr_problems = 0
    /\ nmr_steps = 0
    /\ step_ratio = 0
    /\ step_offset = 0
    /\ model = None
    /\ parameters = None
    /\ initial_step = None
    /\ steps = None
    /\ step_evaluates = None
    /\ derivatives = None
    /\ errors = None
    /\ selector_args = None
    /\ stages = <<>>
    /\ hessian = None

\* the vector whose entry at every linear index is that index
IndexVector(p) == [k \in 0 .. (NmrDerivatives(p) - 1) |-> k]

\* the linear index _results_vector_to_matrix places at matrix position (i, j)
unpacked_index(i, j, p) == results_vector_to_matrix(IndexVector(p), p, None)[i][j]

TriInit ==
    /\ tri_pc = "start"
    /\ tri_params \in 1 .. MaxTriParams
    /\ tri_pair \in Params(tri_params) \X Params(tri_params)
    /\ tri_index = None
    /\ tri_coord = None
    /\ HessianIdle
    /\ SchedIdle
    /\ MapIdle
    /\ SelIdle
    /\ WynnIdle
    /\ LanesIdle

\* _results_vector_to_matrix (lines 263-272) read at one matrix position
TriIndexOf ==
    /\ tri_pc = "start"
    /\ tri_index' = unpacked_index(tri_pair[1], tri_pair[2], tri_params)
    /\ tri_pc' = "indexed"
    /\ UNCHANGED <<tri_params, tri_pair, tri_coord>>
    /\ UNCHANGED <<hvars, svars, mvars, xvars>>

\* _derivation_kernel (lines 558, 572-577): the pair computed into that linear index
TriCoordOf ==
    /\ tri_pc = "indexed"
    /\ tri_coord' = Coords(tri_params)[tri_index]
    /\ tri_pc' = "unpacked"
    /\ UNCHANGED <<tri_params, tri_pair, tri_index>>
    /\ UNCHANGED <<hvars, svars, mvars, xvars>>

TriNext ==
    \/ TriIndexOf
    \/ TriCoordOf

SpecTri == TriInit /\ [][TriNext]_vars

Min(a, b) == IF a <= b THEN a ELSE b
Max(a, b) == IF a >= b THEN a ELSE b

UpperPairs(p) == {c \in Params(p) \X Params(p) : c[1] <= c[2]}

\* row-major order of pairs
RowMajorBefore(c, d) == c[1] < d[1] \/ (c[1] = d[1] /\ c[2] < d[2])

\* C2: the kernel's coords list maps {0..p(p+1)/2-1} one to one onto the pairs with
\* row <= col in row-major order; the index the unpacking reads for a position (i, j)
\* is the row-major position of (min, max), is the same for (j, i), and the kernel
\* computed exactly the pair (min(i,j), max(i,j)) into it.
C2_PackingBijection ==
    tri_pc # "idle" =>
        LET p == tri_params
            coords == Coords(p)
            i == tri_pair[1]
            j == tri_pair[2]
        IN  /\ DOMAIN coords = 0 .. ((p * (p + 1)) \div 2 - 1)
            /\ {coords[k] : k \in DOMAIN coords} = UpperPairs(p)
            /\ \A k, l \in DOMAIN coords : k < l => RowMajorBefore(coords[k], coords[l])
            /\ coords[0] = <<0, 0>>
            /\ p >= 2 => coords[1] = <<0, 1>> /\ coords[p - 1] = <<0, p - 1>>
                         /\ coords[p] = <<1, 1>>
            /\ tri_pc \in {"indexed", "unpacked"} =>
                  /\ tri_index = PairIndex(i, j, p)
                  /\ tri_index = unpacked_index(j, i, p)
                  /\ \A c \in Params(p) \X Params(p) :
                        unpacked_index(c[1], c[2], p) = tri_index
                            => c \in {<<i, j>>, <<j, i>>}
            /\ tri_pc = "unpacked" => tri_coord = <<Min(i, j), Max(i, j)>>

\* C2 happens: a position below the diagonal, not in the first column of a matrix of
\* at least four parameters, was read back and traced to the pair the kernel computed.
C2_Witness ==
    /\ tri_pc = "unpacked"
    /\ tri_params >= 4
    /\ tri_pair[1] > tri_pair[2]
    /\ tri_pair[2] >= 1
    /\ tri_coord = <<tri_pair[2], tri_pair[1]>>

-----------------------------------------------------------------------------
(* The scheduler: Processor with its KernelWorkers (cl_processor.py) and
   MultiDeviceProcessor with its ProcessKernels (cl_processors.py). *)

MaxDevices == 3
MaxShare == 2
MaxInstances == 6
MaxRuns == 2
MaxLocalSize == 3

\* the device lists: per device the share of the load the balancer gives it
EnvironmentLists ==
    UNION {[1 .. d -> 1 .. MaxShare] : d \in 1 .. MaxDevices}

RECURSIVE ShareSum(_, _)
ShareSum(envs, k) == IF k = 0 THEN 0 ELSE envs[k] + ShareSum(envs, k - 1)

\* load_balancer.get_division(cl_environments, nmr_instances): the instance range is
\* split in device order, proportional to the load shares (equal shares give the
\* equal split); every device gets one contiguous range <<start, end>>.
get_division(envs, n) ==
    [k \in 1 .. Len(envs) |->
        <<(n * ShareSum(envs, k - 1)) \div ShareSum(envs, Len(envs)),
          (n * ShareSum(envs, k)) \div ShareSum(envs, Len(envs))>>]

\* a pairing of the workers with the batches in opposite order
zip_reversed(b, k) == b[Len(b) + 1 - k]

\* zip(self._workers, self._batches), batches[ind]: the batch of the k-th device
zip_workers_batches(b, k) == b[k]

Command(op, range_start, range_end) ==
    [op |-> op, range_start |-> range_start, range_end |-> range_end]

\* cl_queue.flush() and cl_queue.finish() as entries of the queue
Flush == Command("flush", 0, 0)
Finish == Command("finish", 0, 0)

\* a calculate that launches each kernel before the transfers to the device
calculate_kernel_first(range_start, range_end, context_variables) ==
    (IF context_variables
     THEN <<Command("context_kernel", range_start, range_end),
            Command("device_access", range_start, range_end),
            Command("host_access", range_start, range_end)>>
     ELSE <<>>)
    \o <<Command("kernel", range_start, range_end),
         Command("device_access", range_start, range_end),
         Command("host_access", range_start, range_end)>>

\* KernelWorker.calculate(range_start, range_end): the context variable kernel with
\* its transfers when there are context variables, then the compute kernel with its.
calculate(range_start, range_end, context_variables) ==
    (IF context_variables
     THEN <<Command("device_access", range_start, range_end),
            Command("context_kernel", range_start, range_end),
            Command("host_access", range_start, range_end)>>
     ELSE <<>>)
    \o <<Command("device_access", range_start, range_end),
         Command("kernel", range_start, range_end),
         Command("host_access", range_start, range_end)>>

\* MultiDeviceProcessor.__init__: the loop over the environments from index ind on
RECURSIVE create_subprocessors(_, _, _)
create_subprocessors(b, ind, context_variables) ==
    IF ind > Len(b) THEN <<>>
    ELSE LET batch == zip_workers_batches(b, ind)
             batch_start == batch[1]
             batch_end == batch[2]
             processor(kernel) ==
                 [kernel |-> kernel, cl_environment |-> ind,
                  global_nmr_instances |-> batch_end - batch_start,
                  instance_offset |-> batch_start]
         IN  (IF batch_end - batch_start > 0
              THEN (IF context_variables THEN <<processor("context_kernel")>> ELSE <<>>)
                   \o <<processor("kernel")>>
              ELSE <<>>)
             \o create_subprocessors(b, ind + 1, context_variables)

\* a launch that ignores the instance offset of the subprocessor
process_kernel_without_offset(worker) ==
    Command(worker.kernel, 0, worker.global_nmr_instances)

\* ProcessKernel.process: the kernel over global_nmr_instances from instance_offset on
process_kernel(worker) ==
    Command(worker.kernel, worker.instance_offset,
            worker.instance_offset + worker.global_nmr_instances)

\* the concatenation of a sequence of sequences
RECURSIVE Concat(_)
Concat(seqs) == IF seqs = <<>> THEN <<>> ELSE Head(seqs) \o Concat(Tail(seqs))

\* the subprocessors of one environment, in the order of self._subprocessors
SubprocessorsOf(subs, env) == SelectSeq(subs, LAMBDA w : w.cl_environment = env)

\* KernelWorker.__init__ (lines 130-165): the program is built for the context of
\* the environment and the kernel function is taken from it.
KernelWorker(cl_environment) ==
    [cl_environment |-> cl_environment, builds |-> 1,
     kernel_func |-> [cl_environment |-> cl_environment, build |-> 1]]

\* a kernel taken from a program built again for the launch
rebuilt_kernel_func(worker) ==
    [cl_environment |-> worker.cl_environment, build |-> worker.builds + 1]

\* the kernel run_compute_kernel launches: self._kernel_func
launched_kernel_func(worker) == worker.kernel_func

\* the PREFERRED_WORK_GROUP_SIZE_MULTIPLE the device of environment k reports
PreferredWorkGroupSize(k) == 2 * k

\* a work group size that takes the explicit local size whenever one is given
workgroup_size_override_first(reduction, size, k) ==
    IF size # 0 THEN size
    ELSE IF reduction THEN PreferredWorkGroupSize(k)
    ELSE 1

\* KernelWorker.__init__ (lines 157-165) and MultiDeviceProcessor.__init__
\* (lines 180-187): the work group size of the compute kernel on environment k
workgroup_size(reduction, size, k) ==
    IF reduction
    THEN (IF size # 0 THEN size ELSE PreferredWorkGroupSize(k))
    ELSE 1

\* the global size, the local size and the global offset of one launch
Launch(kernel, nmr_launched, wg, range_start) ==
    [kernel |-> kernel, global_size |-> nmr_launched * wg, local_size |-> wg,
     global_offset |-> range_start * wg]

\* KernelWorker.calculate: the launches of run_context_var_kernel (lines 197-202)
\* and run_compute_kernel (lines 226-231), both with self._workgroup_size
calculate_launches(range_start, range_end, wg, context_variables) ==
    (IF context_variables
     THEN <<Launch("context_kernel", range_end - range_start, wg, range_start)>>
     ELSE <<>>)
    \o <<Launch("kernel", range_end - range_start, wg, range_start)>>

\* ProcessKernel.process (lines 65-72) of a subprocessor: the context kernel was
\* created with a work group size of 1 (line 193), the compute kernel with
\* workgroup_size (line 197)
process_launch(worker) ==
    Launch(worker.kernel, worker.global_nmr_instances,
           IF worker.kernel = "context_kernel" THEN 1
           ELSE workgroup_size(use_local_reduction, local_size, worker.cl_environment),
           worker.instance_offset)

SchedInit ==
    /\ sched_pc = "constructed"
    /\ sched_kind \in {"Processor", "MultiDeviceProcessor"}
    /\ sched_options \in [context_variables : BOOLEAN, do_data_transfers : BOOLEAN]
    /\ sched_kind = "Processor" => sched_options.do_data_transfers
    /\ cl_environments \in EnvironmentLists
    /\ nmr_instances \in 0 .. MaxInstances
    /\ batches = get_division(cl_environments, nmr_instances)
    /\ subprocessors = IF sched_kind = "MultiDeviceProcessor"
                       THEN create_subprocessors(batches, 1, sched_options.context_variables)
                       ELSE <<>>
    /\ workers = IF sched_kind = "Processor"
                 THEN [k \in 1 .. Len(cl_environments) |-> KernelWorker(k)]
                 ELSE <<>>
    /\ queues = [k \in 1 .. Len(cl_environments) |-> <<>>]
    /\ completed = [k \in 1 .. Len(cl_environments) |-> 0]
    /\ launched = [k \in 1 .. Len(cl_environments) |-> <<>>]
    /\ nmr_runs = 0
    /\ use_local_reduction \in BOOLEAN
    /\ local_size \in {0, MaxLocalSize}
    /\ geometry = [k \in 1 .. Len(cl_environments) |-> <<>>]
    /\ HessianIdle
    /\ TriIdle
    /\ MapIdle
    /\ SelIdle
    /\ WynnIdle
    /\ LanesIdle

Devices == 1 .. Len(cl_environments)

\* cl_queue.finish() on the queues of the devices in waited: it returns when the
\* device has executed every command enqueued on the queue before it
finish_queues(waited, qs) ==
    [k \in Devices |-> IF k \in waited THEN Len(qs[k]) ELSE completed[k]]

\* Processor.enqueue_run(flush, finish) (lines 93-107)
EnqueueRun ==
    /\ sched_kind = "Processor"
    /\ sched_pc \in {"constructed", "enqueued", "finished"}
    /\ nmr_runs < MaxRuns
    /\ \E flush \in BOOLEAN, finish \in BOOLEAN :
          LET enqueued == [k \in Devices |->
                LET batch == zip_workers_batches(batches, k)
                    batch_start == batch[1]
                    batch_end == batch[2]
                IN  queues[k]
                    \o (IF batch_end - batch_start > 0
                        THEN calculate(batch_start, batch_end,
                                       sched_options.context_variables)
                             \o (IF flush THEN <<Flush>> ELSE <<>>)
                        ELSE <<>>)
                    \o (IF finish THEN <<Finish>> ELSE <<>>)]
          IN  /\ queues' = enqueued
              /\ completed' = IF finish THEN finish_queues(Devices, enqueued) ELSE completed
              /\ sched_pc' = IF finish THEN "finished" ELSE "enqueued"
    /\ launched' = [k \in Devices |->
          IF zip_workers_batches(batches, k)[2] - zip_workers_batches(batches, k)[1] > 0
          THEN Append(launched[k], launched_kernel_func(workers[k]))
          ELSE launched[k]]
    /\ geometry' = [k \in Devices |->
          LET batch == zip_workers_batches(batches, k)
          IN  IF batch[2] - batch[1] > 0
              THEN geometry[k]
                   \o calculate_launches(batch[1], batch[2],
                                         workgroup_size(use_local_reduction, local_size, k),
                                         sched_options.context_variables)
              ELSE geometry[k]]
    /\ nmr_runs' = nmr_runs + 1
    /\ UNCHANGED <<sched_kind, sched_options, cl_environments, nmr_instances, batches,
                   subprocessors, workers, use_local_reduction, local_size>>
    /\ UNCHANGED <<hvars, tvars, mvars, xvars>>

\* Processor.enqueue_finish (lines 109-112)
EnqueueFinish ==
    /\ sched_kind = "Processor"
    /\ sched_pc = "enqueued"
    /\ queues' = [k \in Devices |-> Append(queues[k], Finish)]
    /\ completed' = finish_queues(Devices, queues')
    /\ sched_pc' = "finished"
    /\ UNCHANGED <<sched_kind, sched_options, cl_environments, nmr_instances, batches,
                   subprocessors, workers, launched, nmr_runs,
                   use_local_reduction, local_size, geometry>>
    /\ UNCHANGED <<hvars, tvars, mvars, xvars>>

\* the transfers MultiDeviceProcessor.process enqueues on every environment for the
\* kernel data and, when given, the context variables
transfers(op) ==
    IF sched_options.do_data_transfers
    THEN <<Command(op, 0, nmr_instances)>>
         \o (IF sched_options.context_variables
             THEN <<Command(op, 0, nmr_instances)>> ELSE <<>>)
    ELSE <<>>

\* MultiDeviceProcessor.process (lines 201-226)
Process ==
    /\ sched_kind = "MultiDeviceProcessor"
    /\ sched_pc = "constructed"
    /\ queues' = [k \in Devices |->
          LET subs == SubprocessorsOf(subprocessors, k)
          IN  queues[k]
              \o transfers("device_access")
              \o Concat([w \in 1 .. Len(subs) |-> <<process_kernel(subs[w]), Flush>>])
              \o transfers("host_access")]
    /\ geometry' = [k \in Devices |->
          LET subs == SubprocessorsOf(subprocessors, k)
          IN  geometry[k] \o [w \in 1 .. Len(subs) |-> process_launch(subs[w])]]
    /\ sched_pc' = "enqueued"
    /\ UNCHANGED <<sched_kind, sched_options, cl_environments, nmr_instances, batches,
                   subprocessors, completed, workers, launched, nmr_runs,
                   use_local_reduction, local_size>>
    /\ UNCHANGED <<hvars, tvars, mvars, xvars>>

\* MultiDeviceProcessor.flush (lines 228-230)
FlushAll ==
    /\ sched_kind = "MultiDeviceProcessor"
    /\ sched_pc = "enqueued"
    /\ queues' = [k \in Devices |->
          queues[k] \o [w \in 1 .. Len(SubprocessorsOf(subprocessors, k)) |-> Flush]]
    /\ sched_pc' = "flushed"
    /\ UNCHANGED <<sched_kind, sched_options, cl_environments, nmr_instances, batches,
                   subprocessors, completed, workers, launched, nmr_runs,
                   use_local_reduction, local_size, geometry>>
    /\ UNCHANGED <<hvars, tvars, mvars, xvars>>

\* the devices with a subprocessor: the queues MultiDeviceProcessor.finish reaches
SubprocessorDevices == {k \in Devices : SubprocessorsOf(subprocessors, k) # <<>>}

\* MultiDeviceProcessor.finish (lines 232-234)
FinishAll ==
    /\ sched_kind = "MultiDeviceProcessor"
    /\ sched_pc \in {"enqueued", "flushed"}
    /\ queues' = [k \in Devices |->
          queues[k] \o [w \in 1 .. Len(SubprocessorsOf(subprocessors, k)) |-> Finish]]
    /\ completed' = finish_queues(SubprocessorDevices, queues')
    /\ sched_pc' = "finished"
    /\ UNCHANGED <<sched_kind, sched_options, cl_environments, nmr_instances, batches,
                   subprocessors, workers, launched, nmr_runs,
                   use_local_reduction, local_size, geometry>>
    /\ UNCHANGED <<hvars, tvars, mvars, xvars>>

\* a device executes the next command of its queue
DeviceExecute ==
    /\ sched_pc \in {"enqueued", "flushed", "finished"}
    /\ \E k \in Devices :
          /\ completed[k] < Len(queues[k])
          /\ completed' = [completed EXCEPT ![k] = completed[k] + 1]
    /\ UNCHANGED <<sched_pc, sched_kind, sched_options, cl_environments, nmr_instances,
                   batches, subprocessors, queues, workers, launched, nmr_runs,
                   use_local_reduction, local_size, geometry>>
    /\ UNCHANGED <<hvars, tvars, mvars, xvars>>

SchedNext ==
    \/ EnqueueRun
    \/ EnqueueFinish
    \/ Process
    \/ FlushAll
    \/ FinishAll

SpecSched == SchedInit /\ [][SchedNext]_vars

-----------------------------------------------------------------------------
(* Properties of the scheduler. *)

BatchStart(k) == batches[k][1]
BatchEnd(k) == batches[k][2]

RECURSIVE SizeSum(_)
SizeSum(k) == IF k = 0 THEN 0 ELSE (BatchEnd(k) - BatchStart(k)) + SizeSum(k - 1)

\* the ranges of the compute kernel launches on the queue of device k
KernelRanges(k) ==
    {<<queues[k][c].range_start, queues[k][c].range_end>> :
        c \in {c \in 1 .. Len(queues[k]) : queues[k][c].op = "kernel"}}

\* the ranges the kernels of the subprocessors of device k are created for
SubprocessorRanges(k) ==
    {<<subprocessors[w].instance_offset,
       subprocessors[w].instance_offset + subprocessors[w].global_nmr_instances>> :
        w \in {w \in 1 .. Len(subprocessors) :
                  /\ subprocessors[w].cl_environment = k
                  /\ subprocessors[w].kernel = "kernel"}}

UsedRange(k) == IF BatchEnd(k) - BatchStart(k) > 0 THEN {batches[k]} ELSE {}

\* C3: for every instance count and device list there is one batch per device; in
\* device order the batches start at 0, each starts where the previous one ends, the
\* last one ends at N, so they are ordered, disjoint, without gap and their sizes sum
\* to N; and the range a device is launched on is the batch of that device.
C3_BatchPartition ==
    sched_pc # "idle" =>
        /\ Len(batches) = Len(cl_environments)
        /\ \A k \in Devices : 0 <= BatchStart(k) /\ BatchStart(k) <= BatchEnd(k)
                              /\ BatchEnd(k) <= nmr_instances
        /\ BatchStart(1) = 0
        /\ BatchEnd(Len(batches)) = nmr_instances
        /\ \A k \in Devices : k > 1 => BatchStart(k) = BatchEnd(k - 1)
        /\ \A k, l \in Devices : k < l => BatchEnd(k) <= BatchStart(l)
        /\ SizeSum(Len(batches)) = nmr_instances
        /\ \A i \in 0 .. (nmr_instances - 1) :
              Cardinality({k \in Devices : BatchStart(k) <= i /\ i < BatchEnd(k)}) = 1
        /\ sched_kind = "MultiDeviceProcessor" =>
              \A k \in Devices : SubprocessorRanges(k) = UsedRange(k)
        /\ sched_pc \in {"enqueued", "flushed", "finished"} =>
              \A k \in Devices : KernelRanges(k) = UsedRange(k)

\* C3 happens: three devices with unequal shares and a number of instances the shares
\* do not divide were run, every device on a non-empty batch of its own.
C3_Witness ==
    /\ sched_pc = "finished"
    /\ Len(cl_environments) = 3
    /\ cl_environments[1] # cl_environments[2]
    /\ nmr_instances = 5
    /\ \A k \in Devices : KernelRanges(k) # {} /\ KernelRanges(k) = {batches[k]}

\* C3 happens as well with fewer instances than devices: a device had an empty batch
\* and was not launched.
C3_EmptyBatch ==
    /\ sched_pc = "finished"
    /\ nmr_instances > 0
    /\ \E k \in Devices : BatchStart(k) = BatchEnd(k) /\ KernelRanges(k) = {}

-----------------------------------------------------------------------------
(* The processors with the devices executing their queues while the host goes on. *)

MaxSyncDevices == 2
MaxSyncInstances == 3

\* devices with equal load shares
SyncInit ==
    /\ SchedInit
    /\ Len(cl_environments) <= MaxSyncDevices
    /\ nmr_instances <= MaxSyncInstances
    /\ \A k \in 1 .. Len(cl_environments) : cl_environments[k] = 1
    /\ ~use_local_reduction
    /\ local_size = 0

SyncNext ==
    \/ EnqueueRun
    \/ EnqueueFinish
    \/ Process
    \/ FlushAll
    \/ FinishAll
    \/ DeviceExecute

SpecSync == SyncInit /\ [][SyncNext]_vars

\* the device has executed every command enqueued on its queue
QueueCompleted(k) == completed[k] = Len(queues[k])

\* the kernel launches and transfers on the queue of device k that are not executed
Unfinished(k) ==
    {c \in (completed[k] + 1) .. Len(queues[k]) :
        queues[k][c].op \in {"kernel", "context_kernel", "device_access", "host_access"}}

\* C12: once enqueue_finish or finish has returned, every kernel launch and every
\* transfer enqueued on any device queue has been executed, on the devices with an
\* empty batch as well.
C12_FinishCompletesAll ==
    sched_pc = "finished" => \A k \in Devices : Unfinished(k) = {}

\* finish of a MultiDeviceProcessor has returned and a device with an empty batch
\* has not executed a transfer
C12_Witness ==
    /\ sched_pc = "finished"
    /\ sched_kind = "MultiDeviceProcessor"
    /\ nmr_instances > 0
    /\ \E k \in Devices :
          /\ BatchStart(k) = BatchEnd(k)
          /\ \E c \in Unfinished(k) : queues[k][c].op = "host_access"

\* Processor.enqueue_finish waits for every queue
ProcessorFinishCompletesAll ==
    (sched_pc = "finished" /\ sched_kind = "Processor") =>
        \A k \in Devices : QueueCompleted(k)

\* MultiDeviceProcessor.finish waits for the queues of the devices with a batch
SubprocessorQueuesCompleted ==
    (sched_pc = "finished" /\ sched_kind = "MultiDeviceProcessor") =>
        \A k \in SubprocessorDevices : QueueCompleted(k)

\* the workers of a Processor, one per device
Workers == 1 .. Len(workers)

\* C13: a Processor builds the program of each device once, when it is constructed;
\* however many enqueue_run calls follow, no program is built again and every launch
\* on a device uses the kernel object made for that device at construction.
C13_CompiledOnce ==
    sched_kind = "Processor" =>
        /\ Len(workers) = Len(cl_environments)
        /\ \A k \in Workers :
              /\ workers[k] = KernelWorker(k)
              /\ workers[k].builds = 1
              /\ \A c \in 1 .. Len(launched[k]) :
                    launched[k][c] = KernelWorker(k).kernel_func
        /\ \A k \in Workers :
              Len(launched[k]) = IF BatchEnd(k) - BatchStart(k) > 0 THEN nmr_runs ELSE 0

\* enqueue_run was called twice and a device ran the kernel both times
C13_Witness ==
    /\ sched_kind = "Processor"
    /\ nmr_runs = MaxRuns
    /\ nmr_runs >= 2
    /\ \E k \in Workers : Len(launched[k]) = nmr_runs

-----------------------------------------------------------------------------
(* mapping/numerical_hessian.py: the compute kernel of the mapping routine, one
   instance at a time, and the buffers calculate() sets up for it. *)

MaxMapParams == 2
MaxMapProblems == 2
MaxMapSteps == 3

\* the number of halvings _generate_grid_points tries
NmrHalvings == 10

\* what an allocated, not yet written output buffer may hold
AllocatedContents == {Rat(0), NaN}

\* model.numdiff_get_bound_check_function(): whether the point x of parameter
\* param_ind, moved by step to either side, stays within its bounds
bound_check(m, x, step, param_ind) ==
    /\ FLe(m.lower[param_ind], FSub(x, step))
    /\ FLe(FAdd(x, step), m.upper[param_ind])

\* _initial_point_within_bounds: the values it can return. The loop runs over
\* nmr_steps indices; an index past the last parameter reads outside x and outside
\* the bounds, with either result.
mapping_initial_point_within_bounds(m, x, nsteps, p) ==
    LET checked == \A param_ind \in 0 .. (Min(nsteps, p) - 1) :
                       bound_check(m, x[param_ind], Rat(0), param_ind)
    IN  IF ~checked THEN {FALSE}
        ELSE IF nsteps > p THEN BOOLEAN
        ELSE {TRUE}

\* _generate_grid_points, the halving loop of one parameter from iteration i on:
\* <<first_step, step_sizes[param_ind]>> when the loop ends
RECURSIVE mapping_first_step(_, _, _, _, _, _)
mapping_first_step(m, x, param_ind, i, first_step, stored) ==
    IF i >= NmrHalvings THEN <<first_step, stored>>
    ELSE IF bound_check(m, x[param_ind], FDiv(first_step, m.scaling[param_ind]), param_ind)
    THEN mapping_first_step(m, x, param_ind, i + 1, first_step, first_step)
    ELSE mapping_first_step(m, x, param_ind, i + 1, FDiv(first_step, Rat(2)), stored)

\* _generate_grid_points: the step_sizes it leaves behind, [step index][param]
mapping_generate_grid_points(m, x, step_sizes, ratio, nsteps, p) ==
    [step_ind \in 0 .. (nsteps - 1) |-> [param_ind \in Params(p) |->
        LET found == mapping_first_step(m, x, param_ind, 0, m.max_step[param_ind],
                                        step_sizes[0][param_ind])
        IN  IF step_ind = 0 THEN found[2]
            ELSE FDiv(found[1], Rat(IntPow(ratio, step_ind)))]]

\* _generate_grid_points, the loop over the parameters from param_ind on, with
\* first_step_found as the parameters before left it (line 471: it starts as true;
\* line 481 sets it to true): the parameter at which lines 487-489 return false,
\* or p when the loop runs to its end
RECURSIVE mapping_grid_points_stop(_, _, _, _, _)
mapping_grid_points_stop(m, x, p, param_ind, first_step_found) ==
    IF param_ind >= p THEN p
    ELSE LET accepted == \E i \in 0 .. (NmrHalvings - 1) :
                 bound_check(m, x[param_ind],
                             FDiv(FDiv(m.max_step[param_ind], Rat(IntPow(2, i))),
                                  m.scaling[param_ind]),
                             param_ind)
             found == first_step_found \/ accepted
         IN  IF ~found THEN param_ind
             ELSE mapping_grid_points_stop(m, x, p, param_ind + 1, found)

\* _generate_grid_points: the value it returns
mapping_grid_points_found(m, x, p) == mapping_grid_points_stop(m, x, p, 0, TRUE) = p

\* _eval_step of the mapping kernel, without a codec
mapping_eval_step(m, x_input, perturb_loc_0, perturb_0, perturb_loc_1, perturb_1, p) ==
    LET x_a == [x_input EXCEPT ![perturb_loc_0] = FAdd(@, perturb_0)]
        x_tmp == [x_a EXCEPT ![perturb_loc_1] = FAdd(@, perturb_1)]
    IN  Objective(m.objective, x_tmp, p)

\* _compute_step: the elements of one row of step sizes
mapping_compute_step(m, x_input, f_x_input, step_sizes, p) ==
    [result_ind \in 0 .. (NmrDerivatives(p) - 1) |->
        LET px == Coords(p)[result_ind][1]
            py == Coords(p)[result_ind][2]
            hx == FDiv(step_sizes[px], m.scaling[px])
            hy == FDiv(step_sizes[py], m.scaling[py])
            two == Rat(2)
            four == Rat(4)
            zero == Rat(0)
        IN  IF px = py
            THEN FDiv(FSub(FAdd(mapping_eval_step(m, x_input, px, FMul(two, hx), 0, zero, p),
                                mapping_eval_step(m, x_input, px, FMul(FNeg(two), hx),
                                                  0, zero, p)),
                           FMul(two, f_x_input)),
                      FMul(FMul(four, step_sizes[px]), step_sizes[px]))
            ELSE FDiv(FAdd(FSub(FSub(mapping_eval_step(m, x_input, px, hx, py, hy, p),
                                     mapping_eval_step(m, x_input, px, hx, py, FNeg(hy), p)),
                                mapping_eval_step(m, x_input, px, FNeg(hx), py, hy, p)),
                           mapping_eval_step(m, x_input, px, FNeg(hx), py, FNeg(hy), p)),
                      FMul(FMul(four, step_sizes[px]), step_sizes[py]))]

\* the kernel sum of one output, added coefficient by coefficient from kernel_ind on
RECURSIVE mapping_convolute(_, _, _, _, _, _, _)
mapping_convolute(evaluates, kernel, len, nsteps, step_ind, kernel_ind, acc) ==
    IF kernel_ind >= len THEN acc
    ELSE mapping_convolute(evaluates, kernel, len, nsteps, step_ind, kernel_ind + 1,
             FAdd(acc, FMul(evaluates[reflect_index(step_ind, kernel_ind, nsteps)],
                            kernel[kernel_ind])))

\* _apply_richardson_convolution: what step_evaluates_convoluted holds afterwards
mapping_apply_richardson_convolution(step_evals, convoluted, ratio, nsteps, p) ==
    IF nsteps <= 1 THEN convoluted
    ELSE LET kernel_length == IF nsteps = 2 THEN 2 ELSE 3
             kernel == get_richardson_coefficients(ratio, kernel_length - 1)
         IN  [step_ind \in 0 .. (nsteps - 1) |->
                [element_ind \in 0 .. (NmrDerivatives(p) - 1) |->
                    mapping_convolute([k \in 0 .. (nsteps - 1) |-> step_evals[k][element_ind]],
                                      kernel, kernel_length, nsteps, step_ind, 0,
                                      convoluted[step_ind][element_ind])]]

\* the coordinates the mapping model starts from: 1 lies within the bounds, 3 on
\* the upper bound, 5 outside
MapValues == {Rat(1), UpperBound, Rat(5)}

MapElements(p) == 0 .. (NmrDerivatives(p) - 1)

\* calculate (lines 58-77): the kernel data before the kernel runs. steps is a zeroed
\* host array, the two outputs are allocated without being written.
MapInit ==
    /\ map_pc = "allocated"
    /\ \E n \in 1 .. MaxMapProblems, p \in 1 .. MaxMapParams, ns \in 1 .. MaxMapSteps,
          f \in {"sumsq", "kink"}, sc \in ScalingConfigs, content \in AllocatedContents :
          /\ \E x \in [Problems(n) -> [Params(p) -> MapValues]] :
                map_args = [nmr_problems |-> n, nmr_params |-> p, nmr_steps |-> ns,
                            step_ratio |-> 2, parameters |-> x, allocated |-> content,
                            model |-> ModelOf("both", sc, f, "identity", p)]
          /\ map_steps = [prob \in Problems(n) |-> [step_ind \in 0 .. (ns - 1) |->
                             [param_ind \in Params(p) |-> Rat(0)]]]
          /\ map_step_evaluates = [prob \in Problems(n) |-> [step_ind \in 0 .. (ns - 1) |->
                                      [element_ind \in MapElements(p) |-> content]]]
          /\ map_step_evaluates_convoluted = map_step_evaluates
          /\ map_within_bounds = [prob \in Problems(n) |-> None]
    /\ map_computed = {}
    /\ HessianIdle
    /\ TriIdle
    /\ SchedIdle
    /\ SelIdle
    /\ WynnIdle
    /\ LanesIdle

\* compute (lines 500-544) for one instance; the instances run in any order
MapCompute ==
    /\ map_pc = "allocated"
    /\ \E prob \in Problems(map_args.nmr_problems) \ map_computed :
        LET m == map_args.model
            p == map_args.nmr_params
            nsteps == map_args.nmr_steps
            x_input == map_args.parameters[prob]
            f_x_input == Objective(m.objective, x_input, p)
        IN  \E within_bounds \in mapping_initial_point_within_bounds(m, x_input, nsteps, p) :
              /\ map_computed' = map_computed \cup {prob}
              /\ IF ~within_bounds
                 THEN /\ map_within_bounds' = [map_within_bounds EXCEPT ![prob] = FALSE]
                      /\ UNCHANGED <<map_steps, map_step_evaluates,
                                     map_step_evaluates_convoluted>>
                 ELSE LET stop == mapping_grid_points_stop(m, x_input, p, 0, TRUE)
                          generated == mapping_generate_grid_points(
                                           m, x_input, map_steps[prob],
                                           map_args.step_ratio, nsteps, p)
                      IN
                      /\ map_within_bounds' = [map_within_bounds EXCEPT ![prob] =
                                                  mapping_grid_points_found(m, x_input, p)]
                      /\ map_steps' = [map_steps EXCEPT ![prob] =
                            [step_ind \in 0 .. (nsteps - 1) |-> [param_ind \in Params(p) |->
                                IF param_ind < stop THEN generated[step_ind][param_ind]
                                ELSE map_steps[prob][step_ind][param_ind]]]]
                      /\ IF ~mapping_grid_points_found(m, x_input, p)
                         THEN UNCHANGED <<map_step_evaluates, map_step_evaluates_convoluted>>
                         ELSE
                         /\ map_step_evaluates' = [map_step_evaluates EXCEPT ![prob] =
                               [step_ind \in 0 .. (nsteps - 1) |->
                                   mapping_compute_step(m, x_input, f_x_input,
                                                        map_steps'[prob][step_ind], p)]]
                         /\ map_step_evaluates_convoluted' =
                               [map_step_evaluates_convoluted EXCEPT ![prob] =
                                   mapping_apply_richardson_convolution(
                                       map_step_evaluates'[prob], @, map_args.step_ratio,
                                       nsteps, p)]
    /\ UNCHANGED <<map_pc, map_args>>
    /\ UNCHANGED <<hvars, tvars, svars, xvars>>

MapNext == MapCompute

SpecMap == MapInit /\ [][MapNext]_vars

-----------------------------------------------------------------------------
(* Properties of the mapping kernel. *)

MapProblems == Problems(map_args.nmr_problems)
MapSteps == 0 .. (map_args.nmr_steps - 1)

\* the initial point of the instance violates the bound of one of its parameters
InfeasibleStart(prob) ==
    \E param_ind \in Params(map_args.nmr_params) :
        ~bound_check(map_args.model, map_args.parameters[prob][param_ind], Rat(0), param_ind)

\* every derivative output of the instance holds NaN
MarkedNaN(prob) ==
    \A step_ind \in MapSteps, element_ind \in MapElements(map_args.nmr_params) :
        /\ IsNaN(map_step_evaluates[prob][step_ind][element_ind])
        /\ IsNaN(map_step_evaluates_convoluted[prob][step_ind][element_ind])

\* the kernel left the step sizes and the step evaluates of the instance as allocated
NothingComputed(prob) ==
    /\ \A step_ind \in MapSteps, param_ind \in Params(map_args.nmr_params) :
          map_steps[prob][step_ind][param_ind] = Rat(0)
    /\ \A step_ind \in MapSteps, element_ind \in MapElements(map_args.nmr_params) :
          /\ map_step_evaluates[prob][step_ind][element_ind] = map_args.allocated
          /\ map_step_evaluates_convoluted[prob][step_ind][element_ind] = map_args.allocated

\* the kernel can run for every instance it has not run for yet
OthersStillRun ==
    \A prob \in MapProblems \ map_computed :
        mapping_initial_point_within_bounds(map_args.model, map_args.parameters[prob],
                                            map_args.nmr_steps, map_args.nmr_params) # {}

\* C9: once the kernel has run for an instance whose initial point violates a bound,
\* all of that instance's derivative output is NaN and no finite difference was
\* computed for it; the instances that have not run yet can still run.
C9_InfeasibleStart ==
    map_pc = "allocated" =>
        /\ \A prob \in map_computed :
              InfeasibleStart(prob) => MarkedNaN(prob) /\ NothingComputed(prob)
        /\ OthersStillRun

\* C9's case: of two instances that have both run, one started outside its bounds and
\* was left by the kernel, the other one started inside and got finite evaluates.
C9_Witness ==
    /\ map_pc = "allocated"
    /\ map_computed = {0, 1}
    /\ InfeasibleStart(0) /\ map_within_bounds[0] = FALSE
    /\ ~InfeasibleStart(1) /\ map_within_bounds[1] = TRUE
    /\ \A step_ind \in MapSteps, element_ind \in MapElements(map_args.nmr_params) :
          IsFinite(map_step_evaluates[1][step_ind][element_ind])

\* the part of C9 the kernel keeps when every parameter is checked (nmr_steps >=
\* nmr_params): nothing is computed for an infeasible instance, the others still run
MapInfeasibleSkipped ==
    map_pc = "allocated" =>
        /\ \A prob \in map_computed :
              InfeasibleStart(prob) /\ map_args.nmr_steps >= map_args.nmr_params
                  => NothingComputed(prob)
        /\ OthersStillRun

\* the statement of C9 for numerical_hessian() of cl_routines/numerical_hessian.py: a
\* problem with a coordinate outside its used bounds returns NaN in every entry
OutsideUsedBounds(prob) ==
    \E ind \in Params(nmr_params) :
        /\ model.use_bounds[ind]
        /\ \/ model.use_lower[ind] /\ FLt(parameters[prob][ind], model.lower[ind])
           \/ model.use_upper[ind] /\ FGt(parameters[prob][ind], model.upper[ind])

LibraryInfeasibleStart ==
    Done => \A prob \in Problems(nmr_problems) :
                OutsideUsedBounds(prob) =>
                    \A i, j \in Params(nmr_params) : IsNaN(hessian[prob][i][j])

-----------------------------------------------------------------------------
(* _median_outlier_extrapolation on one entry, for any candidates and errors. *)

MaxCandidates == 4

\* a candidate with its error: the numbers 0, 1, 6 and 50 with the same error, 1
\* and 50 with a larger error, and NaN as the candidate, as the error and as both
SelInputs ==
    {<<Rat(0), Rat(1)>>, <<Rat(1), Rat(1)>>, <<Rat(6), Rat(1)>>, <<Rat(50), Rat(1)>>,
     <<Rat(1), Rat(2)>>, <<Rat(50), Rat(2)>>,
     <<NaN, NaN>>, <<NaN, Rat(1)>>, <<Rat(1), NaN>>}

CandidateRange(ncand) == 0 .. (ncand - 1)

SelInit ==
    /\ sel_pc = "called"
    /\ sel_ncand \in 1 .. MaxCandidates
    /\ \E inputs \in [CandidateRange(sel_ncand) -> SelInputs] :
          /\ sel_derivatives = [i \in CandidateRange(sel_ncand) |-> inputs[i][1]]
          /\ sel_errors = [i \in CandidateRange(sel_ncand) |-> inputs[i][2]]
    /\ sel_result = None
    /\ HessianIdle
    /\ TriIdle
    /\ SchedIdle
    /\ MapIdle
    /\ WynnIdle
    /\ LanesIdle

\* _median_outlier_extrapolation (lines 213-249) for the entry
SelCall ==
    /\ sel_pc = "called"
    /\ sel_result' = median_outlier_entry(sel_derivatives, sel_errors, sel_ncand)
    /\ sel_pc' = "returned"
    /\ UNCHANGED <<sel_ncand, sel_derivatives, sel_errors>>
    /\ UNCHANGED <<hvars, tvars, svars, mvars, wynnvars, lanevars>>

SelNext == SelCall

SpecSel == SelInit /\ [][SelNext]_vars

-----------------------------------------------------------------------------
(* Properties of the selection. *)

SelReturned == sel_pc = "returned"

\* the percentiles the call computed, from the candidates as they were then
SelP25 == nanpercentile(sel_result.derivatives, sel_ncand, 1, 4)
SelMedian == nanpercentile(sel_result.derivatives, sel_ncand, 1, 2)
SelP75 == nanpercentile(sel_result.derivatives, sel_ncand, 3, 4)
SelIQR == FAbs(FSub(SelP75, SelP25))

\* candidate i was flagged by the outliers expression
Flagged(i) ==
    is_outlier(sel_result.derivatives[i], SelP25, SelP75, SelIQR, FAbs(SelMedian))

\* what a flagged candidate gets added to its error
Penalty(i) == FAbs(FSub(sel_result.derivatives[i], SelMedian))

\* every candidate is a number and all errors are the same finite number
EqualNominalErrors ==
    /\ \A i \in CandidateRange(sel_ncand) : IsFinite(sel_derivatives[i])
    /\ \A i \in CandidateRange(sel_ncand) :
          IsFinite(sel_errors[i]) /\ sel_errors[i] = sel_errors[0]

OutlierExample ==
    /\ sel_ncand = 4
    /\ sel_derivatives = (0 :> Rat(1)) @@ (1 :> Rat(1)) @@ (2 :> Rat(1)) @@ (3 :> Rat(50))

\* C11: with equal nominal errors, a flagged candidate has |candidate - median|
\* added to its error, the error of every other candidate is unchanged, and the
\* selected candidate is not a flagged one when some candidate is not flagged;
\* of 1, 1, 1, 50 the selector does not choose 50.
C11_OutlierNotSelected ==
    (SelReturned /\ EqualNominalErrors) =>
        /\ \A i \in CandidateRange(sel_ncand) :
              sel_result.errors[i] =
                  IF Flagged(i) THEN FAdd(sel_errors[i], Penalty(i)) ELSE sel_errors[i]
        /\ \A i \in CandidateRange(sel_ncand) :
              Flagged(i) => FLt(sel_errors[i], sel_result.errors[i])
        /\ (\E i \in CandidateRange(sel_ncand) : ~Flagged(i)) =>
              /\ sel_result.minpos \in CandidateRange(sel_ncand)
              /\ ~Flagged(sel_result.minpos)
        /\ OutlierExample =>
              /\ Flagged(3)
              /\ sel_result.errors[3] = FAdd(sel_errors[3], Rat(49))
              /\ sel_result.minpos # 3
              /\ sel_result.derivative_final = Rat(1)

C11_Witness ==
    /\ SelReturned
    /\ EqualNominalErrors
    /\ OutlierExample
    /\ sel_result.minpos = 0

\* mapping/numerical_hessian.py, Extrapolate._get_arg_min for one entry: candidate 0
\* when np.nanargmin raises, else the element at position size // 2 of the indices
\* whose error equals the minimum
mapping_get_arg_min(err, ncand) ==
    IF nanargmin(err, ncand) = Raises THEN 0
    ELSE LET idx == {i \in CandidateRange(ncand) : FEq(err[i], err[nanargmin(err, ncand)])}
         IN  CHOOSE i \in idx :
                 Cardinality({k \in idx : k < i}) = Cardinality(idx) \div 2

\* the selection found a minimum among the penalized errors
MinimumSelected == SelReturned /\ sel_result.minpos # Raises

\* the candidates whose penalized error equals the selected minimum, in ascending order
TiedSet ==
    {i \in CandidateRange(sel_ncand) :
        FEq(sel_result.errors[i], sel_result.errors[sel_result.minpos])}

\* the element at position size // 2 of the tied candidates
MiddleOfTied ==
    CHOOSE i \in TiedSet : Cardinality({k \in TiedSet : k < i}) = Cardinality(TiedSet) \div 2

\* C18: when several candidates share the minimum penalized error, the selected
\* candidate is the one at the middle position of the tied set, not the first.
C18_MiddleOfTied ==
    (MinimumSelected /\ Cardinality(TiedSet) > 1) => sel_result.minpos = MiddleOfTied

\* two unflagged candidates 1 and 6 with equal errors: the first one was selected
C18_Witness ==
    /\ MinimumSelected
    /\ sel_ncand = 2
    /\ sel_derivatives = (0 :> Rat(1)) @@ (1 :> Rat(6))
    /\ sel_errors[0] = sel_errors[1]
    /\ TiedSet = {0, 1}
    /\ MiddleOfTied = 1
    /\ sel_result.minpos = 0
    /\ sel_result.derivative_final = Rat(1)

\* _median_outlier_extrapolation selects the first of the tied candidates
FirstOfTiedSelected ==
    MinimumSelected => \A i \in TiedSet : sel_result.minpos <= i

\* Extrapolate._get_arg_min selects the middle one
MappingMiddleOfTied ==
    MinimumSelected => mapping_get_arg_min(sel_result.errors, sel_ncand) = MiddleOfTied

\* the error of candidate i when the penalties are added: candidate 0 of an entry
\* whose errors are all NaN has been given the error 0 before
ErrorBefore(i) == IF sel_result.all_nan /\ i = 0 THEN Rat(0) ELSE sel_errors[i]

\* the 25th, 50th and 75th percentile of the entry
SelPercentiles == <<SelP25, SelMedian, SelP75>>

\* rule (a): the median magnitude exceeds 1e-8 and the magnitude of the candidate is
\* more than 10 times larger or more than 10 times smaller than it
FactorTenOutlier(x, q) ==
    /\ FGt(FAbs(q[2]), Frac(1, 100000000))
    /\ \/ FGt(FAbs(x), FMul(Rat(10), FAbs(q[2])))
       \/ FLt(FMul(Rat(10), FAbs(x)), FAbs(q[2]))

\* rule (b) as stated: outside median - 1.5 IQR .. median + 1.5 IQR
OutsideMedianInterval(x, q) ==
    \/ FLt(x, FSub(q[2], FMul(Frac(3, 2), FAbs(FSub(q[3], q[1])))))
    \/ FGt(x, FAdd(q[2], FMul(Frac(3, 2), FAbs(FSub(q[3], q[1])))))

\* outside p25 - 1.5 IQR .. p75 + 1.5 IQR
OutsideQuartileFences(x, q) ==
    \/ FLt(x, FSub(q[1], FMul(Frac(3, 2), FAbs(FSub(q[3], q[1])))))
    \/ FGt(x, FAdd(q[3], FMul(Frac(3, 2), FAbs(FSub(q[3], q[1])))))

\* |candidate - median|
DistanceToMedian(x, q) == FAbs(FSub(x, q[2]))

\* the candidates that are numbers
NumberCandidates ==
    {i \in CandidateRange(sel_ncand) : ~IsNaN(sel_result.derivatives[i])}

\* C19 as stated: a candidate has |candidate - median| added to its error exactly
\* when rule (a) holds or it lies outside median +- 1.5 IQR, IQR = |p75 - p25|.
C19_MedianIntervalRule ==
    SelReturned => \A q \in {SelPercentiles} : \A i \in NumberCandidates :
        sel_result.errors[i] =
            FAdd(ErrorBefore(i),
                 IF \/ FactorTenOutlier(sel_result.derivatives[i], q)
                    \/ OutsideMedianInterval(sel_result.derivatives[i], q)
                 THEN DistanceToMedian(sel_result.derivatives[i], q) ELSE Rat(0))

\* C19, amended: a candidate has |candidate - median| added to its error exactly
\* when rule (a) holds or it is smaller than p25 - 1.5 IQR or larger than
\* p75 + 1.5 IQR, IQR = |p75 - p25|; the penalty of a flagged candidate is positive.
C19_QuartileFenceRule ==
    SelReturned => \A q \in {SelPercentiles} : \A i \in NumberCandidates :
        /\ sel_result.errors[i] =
              FAdd(ErrorBefore(i),
                   IF \/ FactorTenOutlier(sel_result.derivatives[i], q)
                      \/ OutsideQuartileFences(sel_result.derivatives[i], q)
                   THEN DistanceToMedian(sel_result.derivatives[i], q) ELSE Rat(0))
        /\ (\/ FactorTenOutlier(sel_result.derivatives[i], q)
            \/ OutsideQuartileFences(sel_result.derivatives[i], q))
              => FGt(DistanceToMedian(sel_result.derivatives[i], q), Rat(0))

\* of 1, 1, 6 the candidate 6 lies outside median +- 1.5 IQR and inside the quartile
\* fences, and its error was left as it was
C19_Witness ==
    /\ SelReturned
    /\ sel_ncand = 3
    /\ sel_derivatives = (0 :> Rat(1)) @@ (1 :> Rat(1)) @@ (2 :> Rat(6))
    /\ IsFinite(sel_errors[2])
    /\ OutsideMedianInterval(Rat(6), SelPercentiles)
    /\ ~OutsideQuartileFences(Rat(6), SelPercentiles)
    /\ ~FactorTenOutlier(Rat(6), SelPercentiles)
    /\ sel_result.errors[2] = sel_errors[2]

\* each rule flags a candidate the other rule does not flag
C19_BothRulesUsed ==
    /\ SelReturned
    /\ \E q \in {SelPercentiles} :
          /\ \E i \in NumberCandidates :
                /\ FactorTenOutlier(sel_result.derivatives[i], q)
                /\ ~OutsideQuartileFences(sel_result.derivatives[i], q)
                /\ IsFinite(sel_errors[i]) /\ sel_result.errors[i] # sel_errors[i]
          /\ \E i \in NumberCandidates :
                /\ ~FactorTenOutlier(sel_result.derivatives[i], q)
                /\ OutsideQuartileFences(sel_result.derivatives[i], q)
                /\ IsFinite(sel_errors[i]) /\ sel_result.errors[i] # sel_errors[i]

-----------------------------------------------------------------------------
(* One work item of _wynn_extrapolation_kernel, for any triple of neighbours. *)

MaxWynnValue == 3

\* the values of a triple: NaN, the integers up to the bound in magnitude, and a half
WynnValues ==
    {NaN, Frac(1, 2)} \cup {Rat(v) : v \in (0 - MaxWynnValue) .. MaxWynnValue}

\* a triple whose reciprocal deltas differ by exactly -MOT_MIN:
\* 0, 1 / (2 MOT_MIN), 3 / (2 MOT_MIN)
CancellingTriple ==
    << Rat(0), FInv(FMul(Rat(2), MOT_MIN)), FMul(Rat(3), FInv(FMul(Rat(2), MOT_MIN))) >>

WynnInit ==
    /\ wynn_pc = "called"
    /\ wynn_triple \in (WynnValues \X WynnValues \X WynnValues) \cup {CancellingTriple}
    /\ wynn_result = None
    /\ wynn_divisions = <<>>
    /\ dea3_divisions = <<>>
    /\ HessianIdle
    /\ TriIdle
    /\ SchedIdle
    /\ MapIdle
    /\ SelIdle
    /\ LanesIdle

\* the body of the loop (lines 630-659) for one i
WynnStep ==
    /\ wynn_pc = "called"
    /\ wynn_result' = wynn_step(wynn_triple[1], wynn_triple[2], wynn_triple[3])
    /\ wynn_divisions' = kernel_divisions(wynn_triple[1], wynn_triple[2], wynn_triple[3])
    /\ dea3_divisions' = dea3_denominators(wynn_triple[1], wynn_triple[2], wynn_triple[3])
    /\ wynn_pc' = "returned"
    /\ UNCHANGED wynn_triple
    /\ UNCHANGED <<hvars, tvars, svars, mvars, selvars, lanevars>>

WynnNext == WynnStep

SpecWynn == WynnInit /\ [][WynnNext]_vars

-----------------------------------------------------------------------------
(* Properties of the Wynn step. *)

WynnReturned == wynn_pc = "returned"

V0 == wynn_triple[1]
V1 == wynn_triple[2]
V2 == wynn_triple[3]

\* tol0 = max(|v0|, |v1|) eps and tol1 = max(|v1|, |v2|) eps
Tol0 == FMul(ClMax(FAbs(V0), FAbs(V1)), MOT_EPSILON)
Tol1 == FMul(ClMax(FAbs(V1), FAbs(V2)), MOT_EPSILON)

\* 1 / delta1 - 1 / delta0 + MOT_MIN, the deltas replaced by MOT_MIN when their
\* magnitude is below it
WynnSs ==
    add_mot_min(FSub(FInv(IF FLt(FAbs(FSub(V2, V1)), MOT_MIN) THEN MOT_MIN ELSE FSub(V2, V1)),
                     FInv(IF FLt(FAbs(FSub(V1, V0)), MOT_MIN) THEN MOT_MIN ELSE FSub(V1, V0))))

WynnConverged ==
    \/ FLe(FAbs(FSub(V1, V0)), Tol0) /\ FLe(FAbs(FSub(V2, V1)), Tol1)
    \/ FLe(FAbs(FMul(WynnSs, V1)), Frac(1, 1000))

\* |v1 - v0| + |v2 - v1|
DeltaMagnitudes == FAdd(FAbs(FSub(V1, V0)), FAbs(FSub(V2, V1)))

\* the result as stated: v2 when converged, v1 + 1 / ss otherwise
StatedResult == IF WynnConverged THEN V2 ELSE FAdd(V1, FInv(WynnSs))

\* C20 as stated: the result is v2 when converged and v1 + 1 / ss otherwise; the
\* error is |v1 - v0| + |v2 - v1| plus, when converged, 10 times the larger of tol0
\* and tol1, and otherwise |result - v2|.
C20_LargerTolerance ==
    WynnReturned =>
        /\ wynn_result[1] = StatedResult
        /\ wynn_result[2] =
              FAdd(DeltaMagnitudes,
                   IF WynnConverged THEN FMul(Rat(10), ClMax(Tol0, Tol1))
                   ELSE FAbs(FSub(StatedResult, V2)))

\* C20, amended: the result is v2 when converged and v1 + 1 / ss otherwise; the
\* error is |v1 - v0| + |v2 - v1| plus, when converged, 10 times tol1, the tolerance
\* of the later pair, whichever of the two tolerances is larger, and otherwise
\* |result - v2|.
C20_LaterTolerance ==
    WynnReturned =>
        /\ wynn_result[1] = StatedResult
        /\ wynn_result[2] =
              FAdd(DeltaMagnitudes,
                   IF WynnConverged THEN FMul(Rat(10), Tol1)
                   ELSE FAbs(FSub(StatedResult, V2)))

\* a converged triple whose earlier tolerance is the larger one: 2, 0, 1
C20_Witness ==
    /\ WynnReturned
    /\ wynn_triple = <<Rat(2), Rat(0), Rat(1)>>
    /\ WynnConverged
    /\ FLt(Tol1, Tol0)
    /\ wynn_result[1] = Rat(1)
    /\ wynn_result[2] = FAdd(Rat(3), FMul(Rat(10), Tol1))

\* a triple that is not converged got the accelerated value
C20_NotConverged ==
    /\ WynnReturned
    /\ ~WynnConverged
    /\ IsFinite(wynn_result[1])
    /\ wynn_result[1] # V2

-----------------------------------------------------------------------------
(* The guards of the divisions of the Wynn step. *)

FiniteTriple == IsFinite(V0) /\ IsFinite(V1) /\ IsFinite(V2)

Range(seq) == {seq[i] : i \in 1 .. Len(seq)}

\* the kernel divides by nothing that is zero, replaces a delta below MOT_MIN by
\* MOT_MIN, takes the reciprocal of ss exactly when the triple is not converged,
\* and returns finite values
KernelNoDivisionByZero ==
    (WynnReturned /\ FiniteTriple) =>
        /\ \A d \in Range(wynn_divisions) : IsFinite(d) /\ ~IsZero(d)
        /\ wynn_divisions[1] = (IF V2 = V1 THEN MOT_MIN ELSE FSub(V2, V1))
        /\ wynn_divisions[2] = (IF V1 = V0 THEN MOT_MIN ELSE FSub(V1, V0))
        /\ Len(wynn_divisions) = (IF WynnConverged THEN 2 ELSE 3)
        /\ IsFinite(wynn_result[1])
        /\ IsFinite(wynn_result[2])

\* C21: for a finite triple no division of the Wynn step, in the kernel or in
\* dea3, has a zero denominator: the two deltas and ss are nonzero when their
\* reciprocals are taken, the results are finite, and the convergence test is
\* the one on the original magnitudes |v1 - v0| and |v2 - v1|.
C21_NoDivisionByZero ==
    (WynnReturned /\ FiniteTriple) =>
        /\ \A d \in Range(wynn_divisions) \cup Range(dea3_divisions) :
                IsFinite(d) /\ ~IsZero(d)
        /\ IsFinite(wynn_result[1])
        /\ IsFinite(wynn_result[2])
        /\ wynn_result[1] = StatedResult

\* the reciprocals of the deltas of 0, 1 / (2 MOT_MIN), 3 / (2 MOT_MIN) differ by
\* -MOT_MIN, ss is zero, the triple counts as converged, and dea3 has divided by ss
C21_Witness ==
    /\ WynnReturned
    /\ wynn_triple = CancellingTriple
    /\ FiniteTriple
    /\ IsZero(WynnSs)
    /\ WynnConverged
    /\ IsZero(dea3_divisions[3])
    /\ Len(wynn_divisions) = 2
    /\ wynn_result[1] = V2

\* both deltas of a constant triple were replaced by MOT_MIN, and its error is the
\* one of the original magnitudes, which are zero
C21_ConstantTriple ==
    /\ WynnReturned
    /\ FiniteTriple
    /\ V0 = V1 /\ V1 = V2 /\ ~IsZero(V1)
    /\ wynn_divisions = << MOT_MIN, MOT_MIN >>
    /\ wynn_result = << V2, FMul(Rat(10), Tol1) >>

-----------------------------------------------------------------------------
(* The indices read by the Richardson stage of numerical_hessian. *)

AtRichardson == pc = "richardson"

\* index k of the raw sequence, mirrored at the end: k, or 2 nmr_steps - k - 1
MirrorIndex(k) == IF k < nmr_steps THEN k ELSE 2 * nmr_steps - k - 1

OutputIndices == 0 .. (nmr_steps - (CoefficientLength(nmr_steps) - 2) - 1)
CoefficientIndices == 0 .. (CoefficientLength(nmr_steps) - 1)

\* the convolution of a raw row at output index s, read at the mirrored indices
MirroredConvolution(row, s) ==
    LET coef == get_richardson_coefficients(step_ratio, CoefficientLength(nmr_steps) - 1)
        RECURSIVE Acc(_)
        Acc(c) == IF c < 0 THEN Rat(0)
                  ELSE FAdd(Acc(c - 1), FMul(row[MirrorIndex(s + c)], coef[c]))
    IN  Acc(CoefficientLength(nmr_steps) - 1)

\* the extrapolations and errors of a raw row, from the mirrored convolution
MirroredRow(row) ==
    LET ext == [s \in OutputIndices |-> MirroredConvolution(row, s)]
    IN  << [c \in 0 .. (FinalNmrConvolutions(nmr_steps) - 1) |-> ext[c]],
           compute_richardson_errors(
               row, ext,
               get_richardson_coefficients(step_ratio, CoefficientLength(nmr_steps) - 1),
               nmr_steps, NmrConvolutionsNeeded(nmr_steps)) >>

\* C22: in the Richardson stage (nmr_steps >= 2), for every output index s below
\* nmr_steps - (L - 2) and every coefficient index c below L the raw value is read
\* at k = s + c when k < nmr_steps and at the mirror index 2 nmr_steps - k - 1
\* otherwise; these indices, the raw index nmr_steps - nmr_convolutions + 1 + i and
\* the extrapolation index i + 1 of the error computation all lie inside their
\* buffers (nmr_steps raw values, nmr_convolutions extrapolations).
C22_MirroredReads ==
    AtRichardson =>
        /\ nmr_steps >= 2
        /\ \A prob \in Problems(nmr_problems), d \in 0 .. (NmrDerivatives(nmr_params) - 1) :
              /\ DOMAIN step_evaluates[prob][d] = 0 .. (nmr_steps - 1)
              /\ \A s \in OutputIndices, c \in CoefficientIndices :
                    MirrorIndex(s + c) \in DOMAIN step_evaluates[prob][d]
              /\ \A i \in 0 .. (NmrConvolutionsNeeded(nmr_steps) - 2) :
                    /\ (nmr_steps - NmrConvolutionsNeeded(nmr_steps) + 1 + i)
                           \in DOMAIN step_evaluates[prob][d]
                    /\ (i + 1) \in OutputIndices
              /\ \A q \in {MirroredRow(step_evaluates[prob][d])} :
                    /\ derivatives[prob][d] = q[1]
                    /\ errors[prob][d] = q[2]

\* the mirror is used and seen: the last convolution reads index nmr_steps, which
\* is mirrored to nmr_steps - 1, the raw values at both ends differ, and the error
\* of the last candidate is finite
C22_Witness ==
    /\ AtRichardson
    /\ nmr_steps >= 3
    /\ MirrorIndex((NmrConvolutionsNeeded(nmr_steps) - 1) + 2) = nmr_steps - 1
    /\ IsFinite(step_evaluates[0][0][0])
    /\ IsFinite(step_evaluates[0][0][nmr_steps - 1])
    /\ step_evaluates[0][0][0] # step_evaluates[0][0][nmr_steps - 1]
    /\ IsFinite(errors[0][0][FinalNmrConvolutions(nmr_steps) - 1])

-----------------------------------------------------------------------------
(* The parameter transformation in the finite differences of numerical_hessian. *)

\* the objective at the transformed input point
TransformedCentre(prob) ==
    calculate_function(model, Transform(model.transform, parameters[prob]), nmr_params)

\* the objective at the input point as the kernel evaluates it (line 569)
KernelCentre(prob) == calculate_function(model, parameters[prob], nmr_params)

\* C23: every objective evaluation of a finite difference is made at the
\* transformed parameter vector, the unperturbed evaluation f(x) like the perturbed
\* ones: every raw difference quotient is the one built from f at the transformed
\* corners and f at the transformed input point.
C23_TransformEverywhere ==
    Started =>
        \A prob \in Problems(nmr_problems), d \in 0 .. (NmrDerivatives(nmr_params) - 1) :
            step_evaluates[prob][d] =
                compute_steps(model, parameters[prob], TransformedCentre(prob),
                              Coords(nmr_params)[d][1], Coords(nmr_params)[d][2],
                              initial_step[prob], step_ratio, nmr_steps, nmr_params)

\* a call with the wrapping transformation at a point outside its period: the
\* objective at the input point is not the objective at the transformed point, and
\* the raw quotient of the first diagonal entry is finite
C23_Witness ==
    /\ Started
    /\ model.transform = "wrap"
    /\ Transform(model.transform, parameters[0]) # parameters[0]
    /\ KernelCentre(0) # TransformedCentre(0)
    /\ IsFinite(step_evaluates[0][0][0])

-----------------------------------------------------------------------------
(* The order of the commands of one run on the queue of a device. *)

SchedRan == sched_pc # "constructed"

NonEmptyBatch(k) == batches[k][2] - batches[k][1] > 0

KernelOps == {"kernel", "context_kernel"}

\* the range of transfer c holds the range of launch kc
Covers(c, kc) == c.range_start <= kc.range_start /\ kc.range_end <= c.range_end

\* the launch at position j of queue q has a transfer to the device before it, with
\* no transfer to the host in between (the transfer belongs to the same run)
InputBefore(q, j) ==
    \E i \in 1 .. (j - 1) :
        /\ q[i].op = "device_access"
        /\ Covers(q[i], q[j])
        /\ \A l \in (i + 1) .. (j - 1) : q[l].op # "host_access"

\* the launch at position j of queue q has a transfer to the host after it, with
\* no transfer to the device in between
ResultAfter(q, j) ==
    \E l \in (j + 1) .. Len(q) :
        /\ q[l].op = "host_access"
        /\ Covers(q[l], q[j])
        /\ \A i \in (j + 1) .. (l - 1) : q[i].op # "device_access"

\* the queue of device k holds a launch of the compute kernel on its batch (and
\* one of the context kernel when there are context variables), and every launch
\* on it has its transfers around it
TransfersAroundLaunches(k) ==
    /\ \E j \in 1 .. Len(queues[k]) :
          queues[k][j] = Command("kernel", batches[k][1], batches[k][2])
    /\ sched_options.context_variables =>
          \E j \in 1 .. Len(queues[k]) :
              queues[k][j] = Command("context_kernel", batches[k][1], batches[k][2])
    /\ \A j \in 1 .. Len(queues[k]) :
          queues[k][j].op \in KernelOps =>
              InputBefore(queues[k], j) /\ ResultAfter(queues[k], j)

\* C24 as stated: after a run, the queue of every device with a non-empty batch
\* holds, in this order, the transfers to the device, the kernel launch and the
\* transfers to the host, for the compute kernel and the context variables alike.
C24_TransfersEveryRun ==
    SchedRan => \A k \in Devices : NonEmptyBatch(k) => TransfersAroundLaunches(k)

\* C24, amended: the same for every run of Processor.enqueue_run, and for
\* MultiDeviceProcessor.process when the processor does the data transfers
\* (do_data_transfers, the default); and the transfers of Processor.enqueue_run
\* are those of exactly the batch range, adjacent to the launch.
C24_TransfersWhenRequested ==
    (SchedRan /\ sched_options.do_data_transfers) =>
        \A k \in Devices : NonEmptyBatch(k) =>
            /\ TransfersAroundLaunches(k)
            /\ sched_kind = "Processor" =>
                  \A j \in 1 .. Len(queues[k]) :
                      queues[k][j].op \in KernelOps =>
                          /\ j > 1 /\ j < Len(queues[k])
                          /\ queues[k][j - 1] =
                                Command("device_access", queues[k][j].range_start,
                                        queues[k][j].range_end)
                          /\ queues[k][j + 1] =
                                Command("host_access", queues[k][j].range_start,
                                        queues[k][j].range_end)

\* two devices with a non-empty batch each ran a Processor with context variables
\* twice: the queue of the second device starts with the six commands of one run
C24_Witness ==
    /\ sched_kind = "Processor"
    /\ sched_options.context_variables
    /\ nmr_runs = 2
    /\ Len(cl_environments) >= 2
    /\ NonEmptyBatch(1) /\ NonEmptyBatch(2)
    /\ Len(queues[2]) >= 12
    /\ [j \in 1 .. 6 |-> queues[2][j].op] =
          <<"device_access", "context_kernel", "host_access",
            "device_access", "kernel", "host_access">>
    /\ \A j \in 1 .. 6 : queues[2][j].range_start = batches[2][1]
                          /\ queues[2][j].range_end = batches[2][2]

\* a MultiDeviceProcessor that leaves the transfers to its caller launched a kernel
C24_NoTransfers ==
    /\ sched_kind = "MultiDeviceProcessor"
    /\ ~sched_options.do_data_transfers
    /\ SchedRan
    /\ \E k \in Devices :
          /\ NonEmptyBatch(k)
          /\ \E j \in 1 .. Len(queues[k]) : queues[k][j].op = "kernel"
          /\ \A j \in 1 .. Len(queues[k]) :
                queues[k][j].op \notin {"device_access", "host_access"}

\* a MultiDeviceProcessor that does the transfers launched both kernels between them
C24_MultiDeviceOrder ==
    /\ sched_kind = "MultiDeviceProcessor"
    /\ sched_options.do_data_transfers
    /\ sched_options.context_variables
    /\ sched_pc = "enqueued"
    /\ NonEmptyBatch(1)
    /\ [j \in 1 .. Len(queues[1]) |-> queues[1][j].op] =
          <<"device_access", "device_access", "context_kernel", "flush",
            "kernel", "flush", "host_access", "host_access">>

-----------------------------------------------------------------------------
(* The global size, local size and global offset of the kernel launches. *)

\* the local group size as stated: 1 unless local reduction is requested, then the
\* explicit local size when one is given and the size the device reports otherwise
LocalGroupSize(k) ==
    IF ~use_local_reduction THEN 1
    ELSE IF local_size # 0 THEN local_size
    ELSE PreferredWorkGroupSize(k)

\* the launches of the compute kernel on device k
ComputeLaunches(k) ==
    {geometry[k][j] : j \in {i \in 1 .. Len(geometry[k]) : geometry[k][i].kernel = "kernel"}}

LaunchedOn(k) == SchedRan /\ NonEmptyBatch(k)

\* C25 as stated: each launch of the compute kernel for a batch [start, end) has
\* the global size (end - start) times the local group size, the local size equal
\* to the local group size, and the global offset batch.start.
C25_OffsetBatchStart ==
    \A k \in Devices : LaunchedOn(k) =>
        /\ ComputeLaunches(k) # {}
        /\ \A l \in ComputeLaunches(k) :
              /\ l.global_size = (batches[k][2] - batches[k][1]) * LocalGroupSize(k)
              /\ l.local_size = LocalGroupSize(k)
              /\ l.global_offset = batches[k][1]

\* C25, amended: the global offset is batch.start times the local group size (the
\* offset counts lanes like the global size, so the first group of the launch is
\* group batch.start); global size and local size are as stated.
C25_OffsetInLanes ==
    \A k \in Devices : LaunchedOn(k) =>
        /\ ComputeLaunches(k) # {}
        /\ \A l \in ComputeLaunches(k) :
              /\ l.global_size = (batches[k][2] - batches[k][1]) * LocalGroupSize(k)
              /\ l.local_size = LocalGroupSize(k)
              /\ l.global_offset = batches[k][1] * LocalGroupSize(k)

\* a launch with local reduction on a batch that does not start at 0: the offset is
\* a multiple of the batch start
C25_Witness ==
    /\ use_local_reduction
    /\ local_size = 0
    /\ Len(cl_environments) >= 2
    /\ LaunchedOn(2)
    /\ batches[2][1] > 0
    /\ \E l \in ComputeLaunches(2) :
          /\ l.local_size = PreferredWorkGroupSize(2)
          /\ l.global_offset = batches[2][1] * PreferredWorkGroupSize(2)
          /\ l.global_offset # batches[2][1]

\* an explicit local size without local reduction: the launch has local size 1
C25_OverrideIgnored ==
    /\ ~use_local_reduction
    /\ local_size = MaxLocalSize
    /\ LaunchedOn(1)
    /\ \E l \in ComputeLaunches(1) : l.local_size = 1 /\ l.global_offset = batches[1][1]

\* an explicit local size with local reduction is the local size of the launch
C25_OverrideUsed ==
    /\ use_local_reduction
    /\ local_size = MaxLocalSize
    /\ LaunchedOn(1)
    /\ \E l \in ComputeLaunches(1) : l.local_size = MaxLocalSize

-----------------------------------------------------------------------------
(* The launches of one run, device by device. *)

\* the positions of the commands with operation op on the queue of device k
Positions(k, op) == {c \in 1 .. Len(queues[k]) : queues[k][c].op = op}

\* the number of runs enqueued so far
RunsEnqueued == IF sched_kind = "Processor" THEN nmr_runs ELSE 1

\* the devices a compute kernel launch of which covers instance i
LaunchedFor(i) ==
    {k \in Devices : \E c \in Positions(k, "kernel") :
        queues[k][c].range_start <= i /\ i < queues[k][c].range_end}

\* the ranges Processor.enqueue_run has device k write back
WrittenBack(k) ==
    {<<queues[k][c].range_start, queues[k][c].range_end>> : c \in Positions(k, "host_access")}

Overlap(r, q) == r[1] < q[2] /\ q[1] < r[2]

C26_MultiDeviceEmptyBatch ==
    /\ sched_kind = "MultiDeviceProcessor"
    /\ SchedRan
    /\ nmr_instances > 0
    /\ \E k \in Devices : ~NonEmptyBatch(k) /\ SubprocessorsOf(subprocessors, k) = <<>>
                            /\ Positions(k, "kernel") = {}

-----------------------------------------------------------------------------
(* mapping/numerical_hessian.py: _calculate_function (lines 188-213), the     *)
(* reduction of the objective over the lanes of one work group.  Every lane   *)
(* runs the calls one after the other, as in the consecutive _eval_step       *)
(* calls of _compute_step; a step of the model is one access of a lane to     *)
(* the shared array local_reduction_lls, and the lanes interleave freely      *)
(* between barriers.                                                           *)

MaxWorkGroupSize == 2
MaxObservations == 3
MaxCalls == 2

\* the lanes of the group: get_local_id(0)
RedLanes == 0 .. (red_workgroup_size - 1)

\* the contribution of one observation in one call of the objective
Contribution(call, observation_ind) == call * (observation_ind + 1)

\* ceil(nmr_inst_per_problem / workgroup_size)
CeilDiv(a, b) == (a + b - 1) \div b

\* elements_for_workitem of the lane local_id (lines 192-197)
elements_for_workitem(local_id, size, nmr_inst) ==
    IF size * (CeilDiv(nmr_inst, size) - 1) + local_id >= nmr_inst
    THEN CeilDiv(nmr_inst, size) - 1
    ELSE CeilDiv(nmr_inst, size)

ReduceInit ==
    /\ red_workgroup_size \in 1 .. MaxWorkGroupSize
    /\ red_observations \in 1 .. MaxObservations
    /\ red_calls \in 1 .. MaxCalls
    /\ red_pc = [l \in RedLanes |-> "reset"]
    /\ red_call = [l \in RedLanes |-> 1]
    /\ red_i = [l \in RedLanes |-> 0]
    /\ red_ll = [l \in RedLanes |-> 0]
    /\ local_reduction_lls = [l \in RedLanes |-> 0]
    /\ red_returned = [l \in RedLanes |-> <<>>]
    /\ red_evaluated = [c \in 1 .. red_calls |->
                           [o \in 0 .. (red_observations - 1) |-> <<>>]]
    /\ HessianIdle
    /\ TriIdle
    /\ SchedIdle
    /\ MapIdle
    /\ SelIdle
    /\ WynnIdle
    /\ GroupIdle
    /\ EvalIdle

RedUnchanged ==
    /\ UNCHANGED <<red_workgroup_size, red_observations, red_calls>>
    /\ UNCHANGED <<hvars, tvars, svars, mvars, selvars, wynnvars, grpvars, evvars>>

\* line 190: data->local_reduction_lls[local_id] = 0
RedReset(l) ==
    /\ red_pc[l] = "reset"
    /\ local_reduction_lls' = [local_reduction_lls EXCEPT ![l] = 0]
    /\ red_i' = [red_i EXCEPT ![l] = 0]
    /\ red_pc' = [red_pc EXCEPT ![l] = "accumulate"]
    /\ UNCHANGED <<red_call, red_ll, red_returned, red_evaluated>>
    /\ RedUnchanged

\* lines 199-203: one pass of the loop over the observations of the lane
RedAccumulate(l) ==
    /\ red_pc[l] = "accumulate"
    /\ red_i[l] < elements_for_workitem(l, red_workgroup_size, red_observations)
    /\ LET observation_ind == red_i[l] * red_workgroup_size + l
       IN  /\ local_reduction_lls' =
                 [local_reduction_lls EXCEPT
                     ![l] = @ + Contribution(red_call[l], observation_ind)]
           /\ red_evaluated' =
                 [red_evaluated EXCEPT ![red_call[l]][observation_ind] = Append(@, l)]
    /\ red_i' = [red_i EXCEPT ![l] = @ + 1]
    /\ UNCHANGED <<red_pc, red_call, red_ll, red_returned>>
    /\ RedUnchanged

\* the loop is left and the lane arrives at the barrier of line 205
RedArrive(l) ==
    /\ red_pc[l] = "accumulate"
    /\ red_i[l] >= elements_for_workitem(l, red_workgroup_size, red_observations)
    /\ red_pc' = [red_pc EXCEPT ![l] = "barrier"]
    /\ UNCHANGED <<red_call, red_i, red_ll, local_reduction_lls, red_returned,
                   red_evaluated>>
    /\ RedUnchanged

\* lane m has arrived at the barrier of call number c
ArrivedAtBarrier(m, c) ==
    \/ red_call[m] > c
    \/ red_call[m] = c /\ red_pc[m] \in {"barrier", "sum", "done"}

\* line 205: barrier(CLK_LOCAL_MEM_FENCE) lets the lane go once every lane of the
\* group has arrived at it; line 207: double ll = 0
RedBarrier(l) ==
    /\ red_pc[l] = "barrier"
    /\ \A m \in RedLanes : ArrivedAtBarrier(m, red_call[l])
    /\ red_pc' = [red_pc EXCEPT ![l] = "sum"]
    /\ red_ll' = [red_ll EXCEPT ![l] = 0]
    /\ red_i' = [red_i EXCEPT ![l] = 0]
    /\ UNCHANGED <<red_call, local_reduction_lls, red_returned, red_evaluated>>
    /\ RedUnchanged

\* lines 208-210: one pass of the loop that adds up the slots of all lanes
RedSum(l) ==
    /\ red_pc[l] = "sum"
    /\ red_i[l] < red_workgroup_size
    /\ red_ll' = [red_ll EXCEPT ![l] = @ + local_reduction_lls[red_i[l]]]
    /\ red_i' = [red_i EXCEPT ![l] = @ + 1]
    /\ UNCHANGED <<red_pc, red_call, local_reduction_lls, red_returned, red_evaluated>>
    /\ RedUnchanged

\* line 211: return ll; the caller goes on with its next call, if any
RedReturn(l) ==
    /\ red_pc[l] = "sum"
    /\ red_i[l] >= red_workgroup_size
    /\ red_returned' = [red_returned EXCEPT ![l] = Append(@, red_ll[l])]
    /\ IF red_call[l] < red_calls
       THEN /\ red_call' = [red_call EXCEPT ![l] = @ + 1]
            /\ red_pc' = [red_pc EXCEPT ![l] = "reset"]
       ELSE /\ red_pc' = [red_pc EXCEPT ![l] = "done"]
            /\ UNCHANGED red_call
    /\ UNCHANGED <<red_i, red_ll, local_reduction_lls, red_evaluated>>
    /\ RedUnchanged

ReduceNext ==
    \E l \in RedLanes :
        \/ RedReset(l)
        \/ RedAccumulate(l)
        \/ RedArrive(l)
        \/ RedBarrier(l)
        \/ RedSum(l)
        \/ RedReturn(l)

SpecReduce == ReduceInit /\ [][ReduceNext]_vars

-----------------------------------------------------------------------------
(* Properties of the reduction. *)

\* the sum of the contributions of all observations of a call
RECURSIVE SumContributions(_, _)
SumContributions(call, n) ==
    IF n = 0 THEN 0 ELSE Contribution(call, n - 1) + SumContributions(call, n - 1)

Total(call) == SumContributions(call, red_observations)

\* lane l has left the loop over its observations in call c
Accumulated(l, c) ==
    \/ red_call[l] > c
    \/ red_call[l] = c /\ red_pc[l] \in {"barrier", "sum", "done"}

\* every observation is evaluated at most once, by the lane local_id with
\* observation_ind % workgroup_size = local_id, and exactly once when the lanes
\* have left their loops
ObservationsCovered ==
    \A c \in 1 .. red_calls, o \in 0 .. (red_observations - 1) :
        /\ Len(red_evaluated[c][o]) <= 1
        /\ \A k \in 1 .. Len(red_evaluated[c][o]) :
              red_evaluated[c][o][k] = o % red_workgroup_size
        /\ (\A l \in RedLanes : Accumulated(l, c)) => Len(red_evaluated[c][o]) = 1

\* C27: for every group size and every number of observations each observation
\* of a call is evaluated by exactly one lane exactly once, and in every
\* interleaving every lane returns, for each of its consecutive calls, the sum of
\* the contributions of all observations of that call.
C27_EveryLaneReturnsTotal ==
    /\ ObservationsCovered
    /\ \A l \in RedLanes : \A c \in 1 .. Len(red_returned[l]) :
          red_returned[l][c] = Total(c)

\* a lane returned a sum that is not the total of its call: it read the slot of a
\* lane that had gone on to the next call
C27_Witness ==
    /\ red_workgroup_size = 2
    /\ red_calls = 2
    /\ ObservationsCovered
    /\ \E l \in RedLanes :
          /\ Len(red_returned[l]) >= 1
          /\ red_returned[l][1] # Total(1)
          /\ red_call[1 - l] = 2

\* with a single call, or a single lane, every lane returns the total
SingleCallTotals ==
    (red_calls <= 1 \/ red_workgroup_size <= 1) =>
        \A l \in RedLanes : \A c \in 1 .. Len(red_returned[l]) :
            red_returned[l][c] = Total(c)

-----------------------------------------------------------------------------
(* mapping/numerical_hessian.py: compute (lines 500-544), the lanes of one work *)
(* group around the two decisions lane 0 takes in the local variable           *)
(* within_bounds.                                                              *)

GrpLanes == 0 .. (grp_size - 1)

\* the positions of a lane in compute, in program order
GrpPositions ==
    <<"decide1", "barrier1", "check1", "decide2", "barrier2", "check2", "compute",
      "barrier3", "finished">>

GrpRank(pos) == CHOOSE k \in 1 .. Len(GrpPositions) : GrpPositions[k] = pos

\* the flags of the barriers of lines 521, 528 and 541
BarrierFlags == "CLK_GLOBAL_MEM_FENCE"

\* a barrier orders the accesses to local memory only with CLK_LOCAL_MEM_FENCE
FencesLocal(flags) == flags = "CLK_LOCAL_MEM_FENCE"

\* what lane l can read from within_bounds: its own write, or, for another lane,
\* the write of lane 0 when the barrier ordered it, and any content otherwise
Readable(l) ==
    IF l = 0 \/ FencesLocal(BarrierFlags) THEN {grp_within_bounds} ELSE BOOLEAN

GroupInit ==
    /\ grp_size \in 1 .. MaxWorkGroupSize
    /\ \E p \in 1 .. MaxMapParams, ns \in 1 .. MaxMapSteps, sc \in ScalingConfigs :
          \E x \in [Params(p) -> MapValues] :
              grp_args = [nmr_params |-> p, nmr_steps |-> ns, x_input |-> x,
                          model |-> ModelOf("both", sc, "sumsq", "identity", p)]
    /\ grp_pc = [l \in GrpLanes |-> "decide1"]
    /\ grp_within_bounds \in BOOLEAN
    /\ grp_observed = [l \in GrpLanes |-> <<>>]
    /\ grp_writers = {}
    /\ grp_coherent = TRUE
    /\ HessianIdle
    /\ TriIdle
    /\ SchedIdle
    /\ MapIdle
    /\ SelIdle
    /\ WynnIdle
    /\ ReduceIdle
    /\ EvalIdle

GrpUnchanged ==
    /\ UNCHANGED <<grp_size, grp_args>>
    /\ UNCHANGED <<hvars, tvars, svars, mvars, selvars, wynnvars, redvars, evvars>>

\* the values lane 0 can store at a decision: _initial_point_within_bounds (line
\* 519) or _generate_grid_points (line 526)
Decisions(pos) ==
    IF pos = "decide1"
    THEN mapping_initial_point_within_bounds(grp_args.model, grp_args.x_input,
                                             grp_args.nmr_steps, grp_args.nmr_params)
    ELSE {mapping_grid_points_found(grp_args.model, grp_args.x_input, grp_args.nmr_params)}

\* lines 518-520 and 525-527: if(get_local_id(0) == 0){ within_bounds = ...; }
GrpDecide(l) ==
    /\ grp_pc[l] \in {"decide1", "decide2"}
    /\ IF l = 0
       THEN /\ \E b \in Decisions(grp_pc[l]) : grp_within_bounds' = b
            /\ grp_writers' = grp_writers \cup {l}
       ELSE UNCHANGED <<grp_within_bounds, grp_writers>>
    /\ grp_pc' = [grp_pc EXCEPT ![l] = GrpPositions[GrpRank(@) + 1]]
    /\ UNCHANGED <<grp_observed, grp_coherent>>
    /\ GrpUnchanged

\* the check at which a lane that has returned left compute
ReturnedAt(m) == IF Len(grp_observed[m]) = 1 THEN "check1" ELSE "check2"

\* lane m has arrived at the barrier at position pos, or has gone past it
ArrivedAt(m, pos) ==
    IF grp_pc[m] = "returned"
    THEN GrpRank(ReturnedAt(m)) > GrpRank(pos)
    ELSE GrpRank(grp_pc[m]) >= GrpRank(pos)

\* lines 521, 528 and 541: the barrier lets a lane go once every lane of the group
\* has arrived at it; a lane that has returned before it never arrives
GrpBarrier(l) ==
    /\ grp_pc[l] \in {"barrier1", "barrier2", "barrier3"}
    /\ \A m \in GrpLanes : ArrivedAt(m, grp_pc[l])
    /\ grp_pc' = [grp_pc EXCEPT ![l] = GrpPositions[GrpRank(@) + 1]]
    /\ UNCHANGED <<grp_within_bounds, grp_observed, grp_writers, grp_coherent>>
    /\ GrpUnchanged

\* lines 522-524 and 529-531: if(!within_bounds){ return; }
GrpCheck(l) ==
    /\ grp_pc[l] \in {"check1", "check2"}
    /\ \E b \in Readable(l) :
          /\ grp_observed' = [grp_observed EXCEPT ![l] = Append(@, b)]
          /\ grp_coherent' = (grp_coherent /\ b = grp_within_bounds)
          /\ grp_pc' = [grp_pc EXCEPT ![l] =
                           IF b THEN GrpPositions[GrpRank(@) + 1] ELSE "returned"]
    /\ UNCHANGED <<grp_within_bounds, grp_writers>>
    /\ GrpUnchanged

\* lines 533-540: the loop over the steps
GrpCompute(l) ==
    /\ grp_pc[l] = "compute"
    /\ grp_pc' = [grp_pc EXCEPT ![l] = "barrier3"]
    /\ UNCHANGED <<grp_within_bounds, grp_observed, grp_writers, grp_coherent>>
    /\ GrpUnchanged

GroupNext ==
    \E l \in GrpLanes :
        \/ GrpDecide(l)
        \/ GrpBarrier(l)
        \/ GrpCheck(l)
        \/ GrpCompute(l)

SpecGroup == GroupInit /\ [][GroupNext]_vars

-----------------------------------------------------------------------------
(* Properties of the decisions of a work group. *)

\* two lanes have read the same values, as far as both have read
SameObserved(l, m) ==
    \A k \in 1 .. Len(grp_observed[l]) :
        k <= Len(grp_observed[m]) => grp_observed[l][k] = grp_observed[m][k]

\* a lane waits at a barrier that a lane of its group, having returned, never
\* reaches
WaitsForReturned ==
    \E l, m \in GrpLanes :
        /\ grp_pc[l] \in {"barrier1", "barrier2", "barrier3"}
        /\ grp_pc[m] = "returned"
        /\ ~ArrivedAt(m, grp_pc[l])

\* C28: each decision is written by lane 0 only, and in every interleaving all
\* lanes of the group read the same value of it, so that either all return early
\* or all go on to the same barriers: no lane waits at a barrier that another
\* lane never reaches.
C28_SameDecision ==
    /\ grp_writers \subseteq {0}
    /\ \A l, m \in GrpLanes : SameObserved(l, m)
    /\ ~WaitsForReturned

\* lane 0 stored true and went on to the second barrier, the other lane read
\* false and returned
C28_Witness ==
    /\ grp_size = 2
    /\ grp_writers = {0}
    /\ grp_observed[0] = <<TRUE>>
    /\ grp_observed[1] = <<FALSE>>
    /\ grp_pc[0] = "barrier2"
    /\ grp_pc[1] = "returned"
    /\ WaitsForReturned

\* as long as every read returns what lane 0 stored last, the lanes agree: the
\* second decision, which lane 0 may store before the others have read the first,
\* is never false
CoherentReadsAgree ==
    grp_coherent => (\A l, m \in GrpLanes : SameObserved(l, m)) /\ ~WaitsForReturned

\* the decisions are written by lane 0 alone
LaneZeroDecides == grp_writers \subseteq {0}

\* a group went through all three barriers
GroupFinished ==
    /\ grp_size = 2
    /\ \A l \in GrpLanes : grp_pc[l] = "finished" /\ grp_observed[l] = <<TRUE, TRUE>>

-----------------------------------------------------------------------------
(* numerical_hessian.py: _eval_step (lines 382-399) called several times in a  *)
(* row by _compute_steps (lines 406-460), the lanes of one work group around   *)
(* the local array x_tmp.                                                      *)

\* the largest number of consecutive calls of _eval_step
MaxEvalCalls == 2

EvLanes == 0 .. (ev_size - 1)

\* the positions of a lane in one call of _eval_step, in program order
EvPositions == <<"write", "perturb", "barrier", "transform", "evaluate", "reduce", "return">>

EvRank(pos) == CHOOSE k \in 1 .. Len(EvPositions) : EvPositions[k] = pos

\* how far lane l has come: the call it is in and its position in that call
EvProgress(l) ==
    IF ev_pc[l] = "done" THEN (ev_calls + 1) * (Len(EvPositions) + 1)
    ELSE ev_call[l] * (Len(EvPositions) + 1) + EvRank(ev_pc[l])

\* the content of x_tmp: x_input with the perturbations of call `call` added or
\* not yet added, and with the parameter transformation applied or not
XTmp(call, perturbed, transformed) ==
    [call |-> call, perturbed |-> perturbed, transformed |-> transformed]

EvalInit ==
    /\ ev_size \in 1 .. MaxWorkGroupSize
    /\ ev_calls \in 1 .. MaxEvalCalls
    /\ ev_objective_barrier \in BOOLEAN
    /\ ev_pc = [l \in EvLanes |-> "write"]
    /\ ev_call = [l \in EvLanes |-> 1]
    /\ ev_x_tmp = XTmp(0, FALSE, FALSE)
    /\ ev_read = [l \in EvLanes |-> <<>>]
    /\ HessianIdle
    /\ TriIdle
    /\ SchedIdle
    /\ MapIdle
    /\ SelIdle
    /\ WynnIdle
    /\ ReduceIdle
    /\ GroupIdle

EvUnchanged ==
    /\ UNCHANGED <<ev_size, ev_calls, ev_objective_barrier>>
    /\ UNCHANGED <<hvars, tvars, svars, mvars, selvars, wynnvars, redvars, grpvars>>

\* lines 388-391: if(get_local_id(0) == 0){ x_tmp[i] = x_input[i] ... }
EvWrite(l) ==
    /\ ev_pc[l] = "write"
    /\ IF l = 0
       THEN /\ ev_x_tmp' = XTmp(ev_call[l], FALSE, FALSE)
            /\ ev_pc' = [ev_pc EXCEPT ![l] = "perturb"]
       ELSE /\ ev_pc' = [ev_pc EXCEPT ![l] = "barrier"]
            /\ UNCHANGED ev_x_tmp
    /\ UNCHANGED <<ev_call, ev_read>>
    /\ EvUnchanged

\* lines 392-393: x_tmp[perturb_dim_0] += perturb_0; x_tmp[perturb_dim_1] += perturb_1
EvPerturb(l) ==
    /\ ev_pc[l] = "perturb"
    /\ ev_x_tmp' = [ev_x_tmp EXCEPT !.perturbed = TRUE]
    /\ ev_pc' = [ev_pc EXCEPT ![l] = "barrier"]
    /\ UNCHANGED <<ev_call, ev_read>>
    /\ EvUnchanged

\* line 395: barrier(CLK_LOCAL_MEM_FENCE)
EvBarrier(l) ==
    /\ ev_pc[l] = "barrier"
    /\ \A m \in EvLanes : EvProgress(m) >= EvProgress(l)
    /\ ev_pc' = [ev_pc EXCEPT ![l] = "transform"]
    /\ UNCHANGED <<ev_call, ev_x_tmp, ev_read>>
    /\ EvUnchanged

\* line 397: every lane applies the parameter transformation to x_tmp in place
EvTransform(l) ==
    /\ ev_pc[l] = "transform"
    /\ ev_x_tmp' = [ev_x_tmp EXCEPT !.transformed = TRUE]
    /\ ev_pc' = [ev_pc EXCEPT ![l] = "evaluate"]
    /\ UNCHANGED <<ev_call, ev_read>>
    /\ EvUnchanged

\* line 398 and lines 364-366: the objective reads x_tmp
EvEvaluate(l) ==
    /\ ev_pc[l] = "evaluate"
    /\ ev_read' = [ev_read EXCEPT ![l] = Append(@, ev_x_tmp)]
    /\ ev_pc' = [ev_pc EXCEPT ![l] = IF ev_objective_barrier THEN "reduce" ELSE "return"]
    /\ UNCHANGED <<ev_call, ev_x_tmp>>
    /\ EvUnchanged

\* an objective that sums the contributions of the lanes waits for all of them
\* after they have read x
EvReduce(l) ==
    /\ ev_pc[l] = "reduce"
    /\ \A m \in EvLanes : EvProgress(m) >= EvProgress(l)
    /\ ev_pc' = [ev_pc EXCEPT ![l] = "return"]
    /\ UNCHANGED <<ev_call, ev_x_tmp, ev_read>>
    /\ EvUnchanged

\* line 398: return; _compute_steps goes on to its next call of _eval_step
EvReturn(l) ==
    /\ ev_pc[l] = "return"
    /\ IF ev_call[l] < ev_calls
       THEN /\ ev_call' = [ev_call EXCEPT ![l] = @ + 1]
            /\ ev_pc' = [ev_pc EXCEPT ![l] = "write"]
       ELSE /\ ev_pc' = [ev_pc EXCEPT ![l] = "done"]
            /\ UNCHANGED ev_call
    /\ UNCHANGED <<ev_x_tmp, ev_read>>
    /\ EvUnchanged

EvalNext ==
    \E l \in EvLanes :
        \/ EvWrite(l)
        \/ EvPerturb(l)
        \/ EvBarrier(l)
        \/ EvTransform(l)
        \/ EvEvaluate(l)
        \/ EvReduce(l)
        \/ EvReturn(l)

SpecEval == EvalInit /\ [][EvalNext]_vars

-----------------------------------------------------------------------------
(* Properties of the consecutive calls of _eval_step. *)

\* C29: in every interleaving of the lanes of a group and over consecutive calls
\* of _eval_step, each lane evaluates call number k on x_input with exactly the
\* two perturbations of call k applied: no lane reads x_tmp before lane 0 has
\* finished writing it, and the write of lane 0 for call k+1 is never seen by a
\* lane that still evaluates call k.
C29_EvaluatesOwnCall ==
    \A l \in EvLanes :
        \A k \in 1 .. Len(ev_read[l]) :
            ev_read[l][k].call = k /\ ev_read[l][k].perturbed

\* lane 1 evaluated the first call on what lane 0 had written for the second
C29_Witness ==
    /\ ev_size = 2
    /\ ~ev_objective_barrier
    /\ Len(ev_read[1]) >= 1
    /\ ev_read[1][1].call = 2
    /\ Len(ev_read[0]) >= 1
    /\ ev_read[0][1] = XTmp(1, TRUE, TRUE)

\* no lane evaluates a call on a vector older than that of the call, or on the
\* vector of the call before lane 0 has added the perturbations
NoReadBeforeWritten ==
    \A l \in EvLanes :
        \A k \in 1 .. Len(ev_read[l]) :
            /\ ev_read[l][k].call >= k
            /\ ev_read[l][k].call = k => ev_read[l][k].perturbed

\* when the objective makes the lanes wait for each other after they have read x,
\* every lane evaluates every call on the vector of that call
SynchronisedObjective ==
    ev_objective_barrier => C29_EvaluatesOwnCall

\* a lane evaluated the vector of a later call before its perturbations were added
ReadsUnperturbedLaterCall ==
    \E l \in EvLanes :
        /\ Len(ev_read[l]) >= 1
        /\ ev_read[l][1].call = 2
        /\ ~ev_read[l][1].perturbed

-----------------------------------------------------------------------------
(* Properties of the step sizes _generate_grid_points stores. *)

\* the bound check accepts the step for the parameter at the start of the instance
StepAccepted(prob, param_ind, step) ==
    bound_check(map_args.model, map_args.parameters[prob][param_ind],
                FDiv(step, map_args.model.scaling[param_ind]), param_ind)

\* the candidate for the first step after i halvings of the maximum step
Candidate(param_ind, i) == FDiv(map_args.model.max_step[param_ind], Rat(IntPow(2, i)))

\* none of the candidates the halving loop tries for the parameter is accepted
NoneAccepted(prob, param_ind) ==
    \A i \in 0 .. (NmrHalvings - 1) : ~StepAccepted(prob, param_ind, Candidate(param_ind, i))

\* compute went past the check of the initial point and called _generate_grid_points
GridPointsGenerated(prob) ==
    /\ prob \in map_computed
    /\ \/ map_within_bounds[prob] = TRUE
       \/ ~NothingComputed(prob)

\* the first step stored for the parameter is the largest accepted candidate
LargestAcceptedCandidate(prob, param_ind) ==
    \E i \in 0 .. (NmrHalvings - 1) :
        /\ map_steps[prob][0][param_ind] = Candidate(param_ind, i)
        /\ StepAccepted(prob, param_ind, Candidate(param_ind, i))
        /\ \A j \in 0 .. (i - 1) : ~StepAccepted(prob, param_ind, Candidate(param_ind, j))

\* every stored step of the parameter is accepted and follows from the first one
StepsFollowRatio(prob, param_ind) ==
    \A step_ind \in MapSteps :
        /\ StepAccepted(prob, param_ind, map_steps[prob][step_ind][param_ind])
        /\ map_steps[prob][step_ind][param_ind] =
               FDiv(map_steps[prob][0][param_ind],
                    Rat(IntPow(map_args.step_ratio, step_ind)))

\* the instance was given up: compute returned after _generate_grid_points and no
\* finite difference was computed for it
Abandoned(prob) ==
    /\ map_within_bounds[prob] = FALSE
    /\ \A step_ind \in MapSteps, element_ind \in MapElements(map_args.nmr_params) :
          /\ map_step_evaluates[prob][step_ind][element_ind] = map_args.allocated
          /\ map_step_evaluates_convoluted[prob][step_ind][element_ind] = map_args.allocated

\* C30: the first step of each parameter starts at the maximum step of the model
\* and is halved at most 10 times until the bound check accepts it; when for some
\* parameter no candidate is accepted, _generate_grid_points returns false and the
\* instance is abandoned; when it returns true, every stored step of every
\* parameter, step 0 included, was accepted by the bound check and step i equals
\* the first step divided by step_ratio^i.
C30_GridPoints ==
    map_pc = "allocated" =>
        \A prob \in MapProblems :
            GridPointsGenerated(prob) =>
                /\ (\E param_ind \in Params(map_args.nmr_params) :
                        NoneAccepted(prob, param_ind)) => Abandoned(prob)
                /\ map_within_bounds[prob] = TRUE =>
                       \A param_ind \in Params(map_args.nmr_params) :
                           /\ LargestAcceptedCandidate(prob, param_ind)
                           /\ StepsFollowRatio(prob, param_ind)

\* an instance of one parameter that starts on its upper bound: no candidate is
\* accepted, yet the kernel went on, left step 0 as the host had zeroed it and
\* computed finite differences with it
C30_Witness ==
    /\ map_pc = "allocated"
    /\ map_args.nmr_params = 1
    /\ map_args.nmr_steps = 2
    /\ 0 \in map_computed
    /\ map_args.parameters[0][0] = UpperBound
    /\ NoneAccepted(0, 0)
    /\ map_within_bounds[0] = TRUE
    /\ map_steps[0][0][0] = Rat(0)
    /\ map_steps[0][1][0] = FDiv(Candidate(0, NmrHalvings), Rat(map_args.step_ratio))
    /\ ~StepAccepted(0, 0, map_steps[0][1][0])
    /\ ~Abandoned(0)

\* _generate_grid_points returns true for every instance
GridPointsAlwaysFound ==
    map_pc = "allocated" =>
        \A prob \in MapProblems :
            mapping_grid_points_found(map_args.model, map_args.parameters[prob],
                                      map_args.nmr_params)

\* for the parameters with an accepted candidate the statement holds: the first
\* step is the largest accepted candidate, and every stored step is accepted and
\* is the first step divided by step_ratio^i
AcceptedParametersFollowRatio ==
    map_pc = "allocated" =>
        \A prob \in MapProblems :
            GridPointsGenerated(prob) =>
                \A param_ind \in Params(map_args.nmr_params) :
                    ~NoneAccepted(prob, param_ind) =>
                        /\ LargestAcceptedCandidate(prob, param_ind)
                        /\ StepsFollowRatio(prob, param_ind)

=============================================================================
